---- MODULE Spec2Model ----
(***************************************************************************)
(* Detection-fusion pipeline of the aircraft defect detection ML service:  *)
(*   services/ensemble_aggregator.py  EnsembleAggregator                    *)
(*   services/gpt_vision_client.py    GPTVisionClient.analyze_image,        *)
(*                                    analyze_with_timeout                  *)
(*   app.py                           detect_defects                        *)
(*                                                                         *)
(* Number representation.  Confidences are exact decimals in units of      *)
(* 1/10000 (0.85 is 8500); ensemble weights and the IoU / NMS thresholds   *)
(* are in units of 1/100 (0.6 is 60).  An IoU is the exact fraction        *)
(* num/den and is compared by cross-multiplication, which agrees with the  *)
(* float comparison of the code for the integer pixel boxes used here.     *)
(* Sequences are 1-based: index 0 stands for the code's index -1 (none).   *)
(***************************************************************************)
EXTENDS Integers, Sequences, FiniteSets, TLC

VARIABLES
    pc,                  \* position of the handler / of the function under check
    yolo_results,        \* app.py:269 / aggregate's first argument
    gpt_results,         \* app.py:270 / aggregate's second argument
    matched_yolo,        \* ensemble_aggregator.py:196
    matched_gpt,         \* ensemble_aggregator.py:197
    matches,             \* the (i, best_match_idx) pairs merged at lines 216-221, in order
    ensemble_detections, \* ensemble_aggregator.py:198, the candidate pool handed to apply_nms
    final_detections,    \* ensemble_aggregator.py:242 / app.py:301
    kept,                \* positions in the pool of the detections apply_nms keeps, in output order
    body,                \* what the request carries: "no_json", "no_url", "ok"
    yoloTask,            \* state of the task submitted at app.py:290
    gptTask,             \* state of the task submitted at app.py:291
    yoloOutcome,         \* what yolo.detect_and_process did inside run_yolo
    gptOutcome,          \* what gpt.analyze_image finally did inside analyze_with_timeout
    future_yolo,         \* app.py:290
    future_gpt,          \* app.py:291
    retry_count,         \* gpt_vision_client.py:198
    waits,               \* the wait_time values slept at gpt_vision_client.py:266, in order
    elapsed,             \* seconds since analyze_with_timeout was entered
    response,            \* the handler's reply
    yolo_weight,         \* ensemble_aggregator.py:27 self.yolo_weight, in 1/100
    gpt_weight,          \* ensemble_aggregator.py:28 self.gpt_weight, in 1/100
    error,               \* the exception the function under check raised, "none" if it returned
    bbox1,               \* calculate_iou's first argument
    bbox2,               \* calculate_iou's second argument
    iou_12,              \* what calculate_iou(bbox1, bbox2) returned
    iou_21,              \* what calculate_iou(bbox2, bbox1) returned
    response_text,       \* parse_response's argument, as the value json.loads gives for it
    results,             \* postprocess's first argument: the boxes of the YOLO model
    original_dimensions, \* postprocess's second argument: (width, height) of the original image
    returned,            \* the list parse_response / postprocess returned
    image,               \* (width, height) of the image given to validate_dimensions / resize_for_yolo
    resized,             \* image_preprocessor.py:128-139: new_width, new_height, x_offset, y_offset
    padded,              \* image_preprocessor.py:135: (width, height, channels) of the returned image
    image_preprocessor,  \* app.py:35, the global; None until constructed
    yolo_detector,       \* app.py:36
    gpt_vision_client,   \* app.py:37
    ensemble_aggregator, \* app.py:38
    thread_pc,           \* where each request thread stands in get_services / detect_defects
    services,            \* app.py:253: the tuple get_services returned to each thread
    constructions,       \* how many times each of the four constructors has run
    replies              \* the reply of each thread's request

vars == <<pc, yolo_results, gpt_results, matched_yolo, matched_gpt, matches,
          ensemble_detections, final_detections, kept, body, yoloTask, gptTask,
          yoloOutcome, gptOutcome, future_yolo, future_gpt, retry_count, waits,
          elapsed, response, yolo_weight, gpt_weight, error, bbox1, bbox2, iou_12,
          iou_21, response_text, results, original_dimensions, returned, image,
          resized, padded, image_preprocessor, yolo_detector, gpt_vision_client,
          ensemble_aggregator, thread_pc, services, constructions, replies>>

aggVars == <<matched_yolo, matched_gpt, matches, ensemble_detections, final_detections, kept>>

reqVars == <<body, yoloTask, gptTask, yoloOutcome, gptOutcome, future_yolo,
             future_gpt, retry_count, waits, elapsed, response>>

\* The attributes of the aggregator that app.py:73-76 sets from the configuration
cfgVars == <<yolo_weight, gpt_weight>>

\* Arguments and return values of the functions that are exercised on their own
fnVars == <<bbox1, bbox2, iou_12, iou_21, response_text, results, original_dimensions,
            returned, image, resized, padded>>

\* The four globals of app.py:35-38 and the request threads of one worker process
svcVars == <<image_preprocessor, yolo_detector, gpt_vision_client, ensemble_aggregator,
             thread_pc, services, constructions, replies>>

----------------------------------------------------------------------------
(* Configuration *)

\* utils/config.py:29 ENSEMBLE_YOLO_WEIGHT, default 0.6, in 1/100
ENSEMBLE_YOLO_WEIGHT == 60

\* utils/config.py:30 ENSEMBLE_GPT_WEIGHT, default 0.4, in 1/100
ENSEMBLE_GPT_WEIGHT == 40

\* ensemble_aggregator.py:17 iou_threshold=0.5, in 1/100
iou_threshold == 50

\* ensemble_aggregator.py:17 nms_threshold=0.4, in 1/100
nms_threshold == 40

\* ensemble_aggregator.py:227 and 236: the literal 0.7, in 1/10000
RetentionThreshold == 7000

\* gpt_vision_client.py:38 max_retries=3
max_retries == 3

\* app.py:283 timeout=30 (seconds)
timeout == 30

----------------------------------------------------------------------------
(* Bounds of the model *)

\* AggSpec: at most this many detections in the two input lists together
MaxTotal == 3

\* NmsSpec: at most this many detections in a candidate pool
MaxPool == 3

\* Spec: at most this many detections returned by one detector
MaxDetect == 1

\* Spec: seconds added to the clock of the external call by one tick
TickSeconds == 10

Classes == {"damaged_rivet", "crack"}

Box(x, y, w, h) == [x |-> x, y |-> y, width |-> w, height |-> h]

\* Boxes of the geometric detector: identical / IoU 1/2 / IoU 2/3 against each other
YoloBoxes == {Box(0, 0, 2, 2), Box(0, 0, 2, 1), Box(0, 0, 3, 2)}

\* Boxes of the semantic detector; parse_response accepts any integer, also x < 0
GptBoxes == {Box(0, 0, 2, 2), Box(0, 0, 2, 1), Box(-1, 0, 3, 2)}

\* Boxes of a candidate pool: IoU 2/5 (first, second), 1/2 (second, third), 1/6 (first, third)
NmsBoxes == {Box(0, 0, 2, 2), Box(0, 0, 3, 1), Box(1, 0, 3, 1)}

YoloConfs == {7000, 8500}

GptConfs == {7000, 8000}

NmsConfs == {7500, 8000, 8300}

\* A box of zero area, which either detector can report (width = height = 0)
ZeroAreaBox == Box(0, 0, 0, 0)

YoloDets ==
    [class : Classes, confidence : YoloConfs, bbox : YoloBoxes]
        \cup {[class |-> "crack", confidence |-> 8500, bbox |-> ZeroAreaBox]}

GptDets ==
    [class : Classes, confidence : GptConfs, bbox : GptBoxes]
        \cup {[class |-> "crack", confidence |-> 8000, bbox |-> ZeroAreaBox]}

PoolDets == [class : Classes, confidence : NmsConfs, bbox : NmsBoxes]

SeqsOfLen(S, n) == [1..n -> S]

SeqsUpTo(S, n) == UNION {SeqsOfLen(S, k) : k \in 0..n}

----------------------------------------------------------------------------
(* EnsembleAggregator *)

Max(a, b) == IF a >= b THEN a ELSE b

Min(a, b) == IF a <= b THEN a ELSE b

\* The float 0.0
IouZero == [num |-> 0, den |-> 1]

\* a < b on two IoU fractions
IouLess(a, b) == a.num * b.den < b.num * a.den

\* iou > t and iou < t for a threshold t in 1/100
IouAbove(iou, t) == iou.num * 100 > t * iou.den

IouBelow(iou, t) == iou.num * 100 < t * iou.den

\* What a float division by zero leaves: ZeroDivisionError, shown as the fraction 0/0
ZeroDivisionError == [num |-> 0, den |-> 0]

IouRaised(r) == r.den = 0

\* n / d on floats
Divide(n, d) == IF d = 0 THEN ZeroDivisionError ELSE [num |-> n, den |-> d]

\* A variant of calculate_iou without the guard "if union_area > 0 else 0.0" of line 71
calculate_iou_unguarded(b1, b2) ==
    LET x_left == Max(b1.x, b2.x)
        y_top == Max(b1.y, b2.y)
        x_right == Min(b1.x + b1.width, b2.x + b2.width)
        y_bottom == Min(b1.y + b1.height, b2.y + b2.height)
        intersection_area == (x_right - x_left) * (y_bottom - y_top)
        union_area == b1.width * b1.height + b2.width * b2.height - intersection_area
    IN  IF x_right < x_left \/ y_bottom < y_top
        THEN IouZero
        ELSE Divide(intersection_area, union_area)

\* A variant of calculate_iou that divides by the area of its first argument
calculate_iou_over_first(b1, b2) ==
    LET x_left == Max(b1.x, b2.x)
        y_top == Max(b1.y, b2.y)
        x_right == Min(b1.x + b1.width, b2.x + b2.width)
        y_bottom == Min(b1.y + b1.height, b2.y + b2.height)
        intersection_area == (x_right - x_left) * (y_bottom - y_top)
        bbox1_area == b1.width * b1.height
    IN  IF x_right < x_left \/ y_bottom < y_top
        THEN IouZero
        ELSE IF bbox1_area > 0
             THEN Divide(intersection_area, bbox1_area)
             ELSE IouZero

\* A variant of calculate_iou whose union is the plain sum of the two areas
calculate_iou_sum_areas(b1, b2) ==
    LET x_left == Max(b1.x, b2.x)
        y_top == Max(b1.y, b2.y)
        x_right == Min(b1.x + b1.width, b2.x + b2.width)
        y_bottom == Min(b1.y + b1.height, b2.y + b2.height)
        intersection_area == (x_right - x_left) * (y_bottom - y_top)
        union_area == b1.width * b1.height + b2.width * b2.height
    IN  IF x_right < x_left \/ y_bottom < y_top
        THEN IouZero
        ELSE IF union_area > 0
             THEN Divide(intersection_area, union_area)
             ELSE IouZero

\* A variant of calculate_iou without the early return of lines 60-61
calculate_iou_no_early_return(b1, b2) ==
    LET x_left == Max(b1.x, b2.x)
        y_top == Max(b1.y, b2.y)
        x_right == Min(b1.x + b1.width, b2.x + b2.width)
        y_bottom == Min(b1.y + b1.height, b2.y + b2.height)
        intersection_area == (x_right - x_left) * (y_bottom - y_top)
        union_area == b1.width * b1.height + b2.width * b2.height - intersection_area
    IN  IF union_area > 0
        THEN Divide(intersection_area, union_area)
        ELSE IouZero

\* lines 36-73
calculate_iou(b1, b2) ==
    LET x1_1 == b1.x
        y1_1 == b1.y
        x2_1 == x1_1 + b1.width
        y2_1 == y1_1 + b1.height
        x1_2 == b2.x
        y1_2 == b2.y
        x2_2 == x1_2 + b2.width
        y2_2 == y1_2 + b2.height
        x_left == Max(x1_1, x1_2)
        y_top == Max(y1_1, y1_2)
        x_right == Min(x2_1, x2_2)
        y_bottom == Min(y2_1, y2_2)
        intersection_area == (x_right - x_left) * (y_bottom - y_top)
        bbox1_area == b1.width * b1.height
        bbox2_area == b2.width * b2.height
        union_area == bbox1_area + bbox2_area - intersection_area
    IN  IF x_right < x_left \/ y_bottom < y_top
        THEN IouZero
        ELSE IF union_area > 0
             THEN Divide(intersection_area, union_area)
             ELSE IouZero

\* A variant of IntHalf that rounds toward minus infinity (s // 2)
IntHalfFloor(s) == s \div 2

\* int(s / 2): Python's int() truncates toward zero
IntHalf(s) == IF s >= 0 THEN s \div 2 ELSE -((-s) \div 2)

\* A variant of merge_detections that takes the plain mean of the confidences
merge_detections_unweighted(det1, det2) ==
    [class |-> det1.class,
     confidence |-> (det1.confidence + det2.confidence) \div 2,
     bbox |-> [x |-> IntHalf(det1.bbox.x + det2.bbox.x),
               y |-> IntHalf(det1.bbox.y + det2.bbox.y),
               width |-> IntHalf(det1.bbox.width + det2.bbox.width),
               height |-> IntHalf(det1.bbox.height + det2.bbox.height)],
     source |-> "ensemble"]

\* lines 114-146.  The weighted sum is exact here; the code's float sum can differ
\* from it in the last bit (0.85 * 0.6 + 0.80 * 0.4 evaluates to 0.8300000000000001)
merge_detections(det1, det2) ==
    [class |-> det1.class,
     confidence |-> (det1.confidence * yolo_weight + det2.confidence * gpt_weight) \div 100,
     bbox |-> [x |-> IntHalf(det1.bbox.x + det2.bbox.x),
               y |-> IntHalf(det1.bbox.y + det2.bbox.y),
               width |-> IntHalf(det1.bbox.width + det2.bbox.width),
               height |-> IntHalf(det1.bbox.height + det2.bbox.height)],
     source |-> "ensemble"]

\* A variant of Tag that leaves the detection as it is
TagNothing(det, tag) == det

\* lines 190-193: det['source'] = tag on every element of the caller's list
Tag(det, tag) == [f \in (DOMAIN det) \cup {"source"} |-> IF f = "source" THEN tag ELSE det[f]]

TagAll(dets, tag) == [k \in 1..Len(dets) |-> Tag(dets[k], tag)]

----------------------------------------------------------------------------
(* aggregate: cross-detector matching, lines 200-221 *)

\* line 208: only match same class
SameClass(yolo_det, gpt_det) == yolo_det.class = gpt_det.class

\* A variant of IsMatch that accepts best_iou >= self.iou_threshold
IsMatchAtLeast(best_iou) == ~IouBelow(best_iou, iou_threshold)

\* line 216: if best_iou > self.iou_threshold
IsMatch(best_iou) == IouAbove(best_iou, iou_threshold)

NoBest == [best_iou |-> IouZero, best_match_idx |-> 0]

\* A variant of FindBest that replaces the best candidate on iou >= best_iou
RECURSIVE FindBestLatest(_, _, _, _)
FindBestLatest(yolo_det, gpt, j, best) ==
    IF j > Len(gpt)
    THEN best
    ELSE LET iou == calculate_iou(yolo_det.bbox, gpt[j].bbox)
         IN  IF SameClass(yolo_det, gpt[j]) /\ ~IouLess(iou, best.best_iou)
             THEN FindBestLatest(yolo_det, gpt, j + 1, [best_iou |-> iou, best_match_idx |-> j])
             ELSE FindBestLatest(yolo_det, gpt, j + 1, best)

\* lines 206-213: the inner loop over gpt_results, from index j on
RECURSIVE FindBest(_, _, _, _)
FindBest(yolo_det, gpt, j, best) ==
    IF j > Len(gpt)
    THEN best
    ELSE LET iou == calculate_iou(yolo_det.bbox, gpt[j].bbox)
         IN  IF SameClass(yolo_det, gpt[j]) /\ IouLess(best.best_iou, iou)
             THEN FindBest(yolo_det, gpt, j + 1, [best_iou |-> iou, best_match_idx |-> j])
             ELSE FindBest(yolo_det, gpt, j + 1, best)

\* lines 201-221: the outer loop over yolo_results, from index i on; acc holds
\* the pairs [i, j] for which lines 218-221 ran
RECURSIVE MatchLoop(_, _, _, _)
MatchLoop(yolo, gpt, i, acc) ==
    IF i > Len(yolo)
    THEN acc
    ELSE LET best == FindBest(yolo[i], gpt, 1, NoBest)
         IN  IF IsMatch(best.best_iou)
             THEN MatchLoop(yolo, gpt, i + 1, Append(acc, [i |-> i, j |-> best.best_match_idx]))
             ELSE MatchLoop(yolo, gpt, i + 1, acc)

\* A variant of Retained that accepts confidence >= 0.7
RetainedAtLeast(det) == det.confidence >= RetentionThreshold

\* lines 227 and 236: confidence > 0.7
Retained(det) == det.confidence > RetentionThreshold

\* lines 224-230 and 233-239: the unmatched detections that are kept, in list order
RECURSIVE Unmatched(_, _, _)
Unmatched(dets, matched, k) ==
    IF k > Len(dets)
    THEN <<>>
    ELSE IF k \notin matched /\ Retained(dets[k])
         THEN <<dets[k]>> \o Unmatched(dets, matched, k + 1)
         ELSE Unmatched(dets, matched, k + 1)

----------------------------------------------------------------------------
(* apply_nms, lines 75-112 *)

\* A variant of InsertDesc that is not stable: an element goes before the
\* elements already placed whose confidence equals its own
RECURSIVE InsertDescBefore(_, _)
InsertDescBefore(sorted, det) ==
    IF sorted = <<>>
    THEN <<det>>
    ELSE IF Head(sorted).confidence > det.confidence
         THEN <<Head(sorted)>> \o InsertDescBefore(Tail(sorted), det)
         ELSE <<det>> \o sorted

\* sorted(..., reverse=True) is stable: an element goes behind every element
\* already placed whose confidence is >= its own
RECURSIVE InsertDesc(_, _)
InsertDesc(sorted, det) ==
    IF sorted = <<>>
    THEN <<det>>
    ELSE IF Head(sorted).confidence >= det.confidence
         THEN <<Head(sorted)>> \o InsertDesc(Tail(sorted), det)
         ELSE <<det>> \o sorted

RECURSIVE SortDesc(_, _)
SortDesc(dets, k) ==
    IF k = 0 THEN <<>> ELSE InsertDesc(SortDesc(dets, k - 1), dets[k])

\* line 89
sorted_detections(dets) == SortDesc(dets, Len(dets))

\* A variant of Suppresses that leaves out every same-class det that overlaps current
SuppressesOverlapping(current, det) ==
    /\ det.class = current.class
    /\ IouAbove(calculate_iou(current.bbox, det.bbox), 0)

\* A variant of Suppresses without the class comparison of line 102
SuppressesAnyClass(current, det) ==
    ~IouBelow(calculate_iou(current.bbox, det.bbox), nms_threshold)

\* A variant of Suppresses that keeps det when iou <= self.nms_threshold
SuppressesStrict(current, det) ==
    /\ det.class = current.class
    /\ IouAbove(calculate_iou(current.bbox, det.bbox), nms_threshold)

\* lines 102-107: det is left out of filtered
Suppresses(current, det) ==
    /\ det.class = current.class
    /\ ~IouBelow(calculate_iou(current.bbox, det.bbox), nms_threshold)

\* lines 93-109
RECURSIVE NmsLoop(_, _)
NmsLoop(sorted, keep) ==
    IF sorted = <<>>
    THEN keep
    ELSE LET current == Head(sorted)
             filtered == SelectSeq(Tail(sorted), LAMBDA det : ~Suppresses(current, det))
         IN  NmsLoop(filtered, Append(keep, current))

apply_nms(detections) ==
    IF detections = <<>> THEN <<>> ELSE NmsLoop(sorted_detections(detections), <<>>)

\* apply_nms on the pool with every element carrying its position: the positions of
\* the elements of keep, in the order of keep
KeptPositions(detections) ==
    LET numbered == [k \in 1..Len(detections) |->
                        [class |-> detections[k].class,
                         confidence |-> detections[k].confidence,
                         bbox |-> detections[k].bbox,
                         pos |-> k]]
        keep == apply_nms(numbered)
    IN  [k \in 1..Len(keep) |-> keep[k].pos]

----------------------------------------------------------------------------
(* aggregate, lines 175-259: every local of the function after a call *)

\* lines 206-210: some calculate_iou of the matching loops raises
MatchRaises(yolo, gpt) ==
    \E i \in 1..Len(yolo) :
       \E j \in 1..Len(gpt) :
          /\ SameClass(yolo[i], gpt[j])
          /\ IouRaised(calculate_iou(yolo[i].bbox, gpt[j].bbox))

\* lines 93-109: some calculate_iou of the suppression loop raises
RECURSIVE NmsRaises(_)
NmsRaises(sorted) ==
    IF sorted = <<>>
    THEN FALSE
    ELSE LET current == Head(sorted)
             rest == Tail(sorted)
         IN  \/ \E k \in 1..Len(rest) :
                   /\ rest[k].class = current.class
                   /\ IouRaised(calculate_iou(current.bbox, rest[k].bbox))
             \/ NmsRaises(SelectSeq(rest, LAMBDA det : ~Suppresses(current, det)))

\* error is what lines 256-259 raise again: any exception of the body leaves
\* aggregate as Exception
aggregate(yolo_in, gpt_in) ==
    LET yolo == TagAll(yolo_in, "yolo")
        gpt == TagAll(gpt_in, "gpt")
        pairs == MatchLoop(yolo, gpt, 1, <<>>)
        m_yolo == {pairs[k].i : k \in 1..Len(pairs)}
        m_gpt == {pairs[k].j : k \in 1..Len(pairs)}
        merged == [k \in 1..Len(pairs) |-> merge_detections(yolo[pairs[k].i], gpt[pairs[k].j])]
        pool == merged \o Unmatched(yolo, m_yolo, 1) \o Unmatched(gpt, m_gpt, 1)
    IN  [yolo_results |-> yolo,
         gpt_results |-> gpt,
         matches |-> pairs,
         matched_yolo |-> m_yolo,
         matched_gpt |-> m_gpt,
         ensemble_detections |-> pool,
         final_detections |-> apply_nms(pool),
         kept |-> KeptPositions(pool),
         error |-> IF MatchRaises(yolo, gpt) \/ NmsRaises(sorted_detections(pool))
                   THEN "Exception"
                   ELSE "none"]

----------------------------------------------------------------------------
(* The request handler at rest: the values of its variables while a pure    *)
(* function of the aggregator is exercised on its own                       *)

NoFuture == [state |-> "none"]

NoOutcome == [kind |-> "none"]

NoResponse == [status |-> 0, code |-> "none"]

ReqIdle ==
    /\ body = "none"
    /\ yoloTask = "unsubmitted"
    /\ gptTask = "unsubmitted"
    /\ yoloOutcome = NoOutcome
    /\ gptOutcome = NoOutcome
    /\ future_yolo = NoFuture
    /\ future_gpt = NoFuture
    /\ retry_count = 0
    /\ waits = <<>>
    /\ elapsed = 0
    /\ response = NoResponse

\* app.py:73-76: the aggregator carries the configured weights
Configured ==
    /\ yolo_weight = ENSEMBLE_YOLO_WEIGHT
    /\ gpt_weight = ENSEMBLE_GPT_WEIGHT

\* image_preprocessor.py:128-139 not yet run
NotResized == [new_width |-> 0, new_height |-> 0, x_offset |-> 0, y_offset |-> 0]

\* No function has been exercised on its own
FnIdle ==
    /\ bbox1 = Box(0, 0, 0, 0)
    /\ bbox2 = Box(0, 0, 0, 0)
    /\ iou_12 = IouZero
    /\ iou_21 = IouZero
    /\ image = <<0, 0>>
    /\ resized = NotResized
    /\ padded = <<0, 0, 0>>
    /\ response_text = <<>>
    /\ results = <<>>
    /\ original_dimensions = <<0, 0>>
    /\ returned = <<>>

\* At most this many request threads in the worker process (gunicorn.conf.py:16)
MaxThreads == 2

Threads == 1..MaxThreads

\* app.py:35-38: the value None of a global not yet assigned
None == 0

ServiceNames == {"image_preprocessor", "yolo_detector", "gpt_vision_client",
                 "ensemble_aggregator"}

\* No request thread has started and nothing has been constructed
SvcIdle ==
    /\ image_preprocessor = None
    /\ yolo_detector = None
    /\ gpt_vision_client = None
    /\ ensemble_aggregator = None
    /\ thread_pc = [t \in Threads |-> "idle"]
    /\ services = [t \in Threads |-> <<None, None, None, None>>]
    /\ constructions = [n \in ServiceNames |-> 0]
    /\ replies = [t \in Threads |-> NoResponse]

AggEmpty ==
    /\ matched_yolo = {}
    /\ matched_gpt = {}
    /\ matches = <<>>
    /\ ensemble_detections = <<>>
    /\ final_detections = <<>>
    /\ kept = <<>>

----------------------------------------------------------------------------
(* AggSpec: EnsembleAggregator.aggregate on every pair of input lists *)

AggInit ==
    /\ pc = "agg_input"
    /\ \E ny \in 0..MaxTotal :
         \E ng \in 0..(MaxTotal - ny) :
            /\ yolo_results \in SeqsOfLen(YoloDets, ny)
            /\ gpt_results \in SeqsOfLen(GptDets, ng)
    /\ AggEmpty
    /\ ReqIdle
    /\ Configured
    /\ FnIdle
    /\ error = "none"
    /\ SvcIdle

\* One call of aggregate(yolo_results, gpt_results); the two lists are tagged in
\* place, also when the call raises
AggCall ==
    /\ pc = "agg_input"
    /\ LET r == aggregate(yolo_results, gpt_results)
       IN  /\ yolo_results' = r.yolo_results
           /\ gpt_results' = r.gpt_results
           /\ error' = r.error
           /\ IF r.error = "none"
              THEN /\ matches' = r.matches
                   /\ matched_yolo' = r.matched_yolo
                   /\ matched_gpt' = r.matched_gpt
                   /\ ensemble_detections' = r.ensemble_detections
                   /\ final_detections' = r.final_detections
                   /\ kept' = r.kept
              ELSE UNCHANGED aggVars
    /\ pc' = "agg_done"
    /\ UNCHANGED reqVars
    /\ UNCHANGED <<cfgVars, fnVars>>
    /\ UNCHANGED svcVars

AggNext == AggCall

AggSpec == AggInit /\ [][AggNext]_vars

----------------------------------------------------------------------------
(* NmsSpec: EnsembleAggregator.apply_nms on every candidate pool *)

NmsInit ==
    /\ pc = "nms_input"
    /\ ensemble_detections \in SeqsUpTo(PoolDets, MaxPool)
    /\ yolo_results = <<>>
    /\ gpt_results = <<>>
    /\ matched_yolo = {}
    /\ matched_gpt = {}
    /\ matches = <<>>
    /\ final_detections = <<>>
    /\ kept = <<>>
    /\ ReqIdle
    /\ Configured
    /\ FnIdle
    /\ error = "none"
    /\ SvcIdle

\* One call of apply_nms(ensemble_detections)
NmsCall ==
    /\ pc = "nms_input"
    /\ final_detections' = apply_nms(ensemble_detections)
    /\ kept' = KeptPositions(ensemble_detections)
    /\ pc' = "nms_done"
    /\ UNCHANGED <<yolo_results, gpt_results, matched_yolo, matched_gpt, matches,
                   ensemble_detections>>
    /\ UNCHANGED reqVars
    /\ UNCHANGED <<cfgVars, fnVars, error>>
    /\ UNCHANGED svcVars

NmsNext == NmsCall

NmsSpec == NmsInit /\ [][NmsNext]_vars

----------------------------------------------------------------------------
(* Spec: one request to /ml/detect, app.py detect_defects, with its two      *)
(* detector tasks                                                            *)

\* What the detectors can return in Spec
ReqYoloDets == {d \in YoloDets : d.bbox = Box(0, 0, 2, 2)}

ReqGptDets == {d \in GptDets : d.bbox = Box(0, 0, 2, 2)}

\* What a call inside a task did: returned a list, or raised
Returned(dets) == [kind |-> "returned", value |-> dets]

Raised == [kind |-> "raised"]

\* A future that holds a return value, and one that holds an exception
Result(dets) == [state |-> "result", value |-> dets]

Pending == [state |-> "pending"]

Failed == [state |-> "exception"]

\* A variant of run_yolo without the try / except of lines 274-278
run_yolo_uncaught(outcome) ==
    IF outcome.kind = "raised" THEN Failed ELSE Result(outcome.value)

\* app.py:272-278: what the future of run_yolo holds, given what detect_and_process did
run_yolo(outcome) ==
    IF outcome.kind = "raised" THEN Result(<<>>) ELSE Result(outcome.value)

\* gpt_vision_client.py:272-288: what analyze_with_timeout returns, given what
\* analyze_image did; the timeout argument is not read
analyze_with_timeout(outcome, timeout_arg) ==
    IF outcome.kind = "raised" THEN Returned(<<>>) ELSE Returned(outcome.value)

\* app.py:280-286: what the future of run_gpt holds
run_gpt(outcome) ==
    LET r == analyze_with_timeout(outcome, timeout)
    IN  IF r.kind = "raised" THEN Result(<<>>) ELSE Result(r.value)

\* app.py:333-360: the reply to an exception leaving the try block
ErrorResponse(exception) ==
    IF exception = "ValueError"
    THEN [status |-> 400, code |-> "VALIDATION_ERROR"]
    ELSE [status |-> 500, code |-> "ML_ERROR"]

Init ==
    /\ pc = "start"
    /\ body \in {"no_json", "no_url", "ok"}
    /\ yolo_results = <<>>
    /\ gpt_results = <<>>
    /\ AggEmpty
    /\ yoloTask = "unsubmitted"
    /\ gptTask = "unsubmitted"
    /\ yoloOutcome = NoOutcome
    /\ gptOutcome = NoOutcome
    /\ future_yolo = NoFuture
    /\ future_gpt = NoFuture
    /\ retry_count = 0
    /\ waits = <<>>
    /\ elapsed = 0
    /\ response = NoResponse
    /\ Configured
    /\ FnIdle
    /\ error = "none"
    /\ SvcIdle

taskVars == <<yoloTask, gptTask, yoloOutcome, gptOutcome, future_yolo, future_gpt,
              retry_count, waits, elapsed>>

\* app.py:226-248
Validate ==
    /\ pc = "start"
    /\ IF body = "no_json"
       THEN /\ response' = [status |-> 400, code |-> "INVALID_REQUEST"]
            /\ pc' = "done"
       ELSE IF body = "no_url"
            THEN /\ response' = [status |-> 400, code |-> "MISSING_PARAMETER"]
                 /\ pc' = "done"
            ELSE /\ response' = response
                 /\ pc' = "preprocess"
    /\ UNCHANGED <<yolo_results, gpt_results, body>>
    /\ UNCHANGED aggVars
    /\ UNCHANGED <<cfgVars, fnVars, error>>
    /\ UNCHANGED svcVars
    /\ UNCHANGED taskVars

\* A variant of Preprocess whose failure is recorded while the request goes on
PreprocessGoesOn ==
    /\ pc = "preprocess"
    /\ \E ok \in BOOLEAN :
          IF ok
          THEN response' = response
          ELSE response' = ErrorResponse("ValueError")
    /\ pc' = "submit_yolo"
    /\ yolo_results' = <<>>
    /\ gpt_results' = <<>>
    /\ UNCHANGED body
    /\ UNCHANGED aggVars
    /\ UNCHANGED <<cfgVars, fnVars, error>>
    /\ UNCHANGED svcVars
    /\ UNCHANGED taskVars

\* app.py:253-270: preprocess returns, or raises ValueError (image_preprocessor.py:297-300)
Preprocess ==
    /\ pc = "preprocess"
    /\ \E ok \in BOOLEAN :
          IF ok
          THEN /\ pc' = "submit_yolo"
               /\ response' = response
          ELSE /\ pc' = "done"
               /\ response' = ErrorResponse("ValueError")
    /\ yolo_results' = <<>>
    /\ gpt_results' = <<>>
    /\ UNCHANGED body
    /\ UNCHANGED aggVars
    /\ UNCHANGED <<cfgVars, fnVars, error>>
    /\ UNCHANGED svcVars
    /\ UNCHANGED taskVars

\* app.py:290: the pool has two workers, the task starts at once
SubmitYolo ==
    /\ pc = "submit_yolo"
    /\ yoloTask' = "running"
    /\ future_yolo' = Pending
    /\ pc' = "submit_gpt"
    /\ UNCHANGED <<yolo_results, gpt_results, body, response>>
    /\ UNCHANGED aggVars
    /\ UNCHANGED <<cfgVars, fnVars, error>>
    /\ UNCHANGED svcVars
    /\ UNCHANGED <<gptTask, yoloOutcome, gptOutcome, future_gpt, retry_count, waits, elapsed>>

\* app.py:291: run_gpt enters analyze_with_timeout and analyze_image(image, retry_count=0)
SubmitGpt ==
    /\ pc = "submit_gpt"
    /\ gptTask' = "calling"
    /\ future_gpt' = Pending
    /\ retry_count' = 0
    /\ elapsed' = 0
    /\ pc' = "wait_yolo"
    /\ UNCHANGED <<yolo_results, gpt_results, body, response>>
    /\ UNCHANGED aggVars
    /\ UNCHANGED <<cfgVars, fnVars, error>>
    /\ UNCHANGED svcVars
    /\ UNCHANGED <<yoloTask, yoloOutcome, gptOutcome, future_yolo, waits>>

\* app.py:272-278: the YOLO task runs to its end
YoloRun ==
    /\ yoloTask = "running"
    /\ \E outcome \in {Raised} \cup {Returned(dets) : dets \in SeqsUpTo(ReqYoloDets, MaxDetect)} :
          /\ yoloOutcome' = outcome
          /\ future_yolo' = run_yolo(outcome)
    /\ yoloTask' = "done"
    /\ UNCHANGED <<pc, yolo_results, gpt_results, body, response>>
    /\ UNCHANGED aggVars
    /\ UNCHANGED <<cfgVars, fnVars, error>>
    /\ UNCHANGED svcVars
    /\ UNCHANGED <<gptTask, gptOutcome, future_gpt, retry_count, waits, elapsed>>

\* gpt_vision_client.py:225-256: the API call returns and parse_response yields a list
GptCallReturns ==
    /\ gptTask = "calling"
    /\ \E dets \in SeqsUpTo(ReqGptDets, MaxDetect) :
          /\ gptOutcome' = Returned(dets)
          /\ future_gpt' = run_gpt(Returned(dets))
    /\ gptTask' = "done"
    /\ UNCHANGED <<pc, yolo_results, gpt_results, body, response>>
    /\ UNCHANGED aggVars
    /\ UNCHANGED <<cfgVars, fnVars, error>>
    /\ UNCHANGED svcVars
    /\ UNCHANGED <<yoloTask, yoloOutcome, future_yolo, retry_count, waits, elapsed>>

\* A variant of GptCallFailsRetry whose wait grows by one second per attempt
GptCallFailsRetryLinear ==
    /\ gptTask = "calling"
    /\ retry_count < max_retries
    /\ waits' = Append(waits, retry_count + 1)
    /\ gptTask' = "sleeping"
    /\ UNCHANGED <<pc, yolo_results, gpt_results, body, response>>
    /\ UNCHANGED aggVars
    /\ UNCHANGED <<cfgVars, fnVars, error>>
    /\ UNCHANGED svcVars
    /\ UNCHANGED <<yoloTask, yoloOutcome, gptOutcome, future_yolo, future_gpt, retry_count, elapsed>>

\* gpt_vision_client.py:258-267: the attempt raises and retry_count < max_retries
GptCallFailsRetry ==
    /\ gptTask = "calling"
    /\ retry_count < max_retries
    /\ waits' = Append(waits, 2 ^ retry_count)
    /\ gptTask' = "sleeping"
    /\ UNCHANGED <<pc, yolo_results, gpt_results, body, response>>
    /\ UNCHANGED aggVars
    /\ UNCHANGED <<cfgVars, fnVars, error>>
    /\ UNCHANGED svcVars
    /\ UNCHANGED <<yoloTask, yoloOutcome, gptOutcome, future_yolo, future_gpt, retry_count, elapsed>>

\* gpt_vision_client.py:266-267: time.sleep(wait_time) ends, analyze_image(image, retry_count + 1)
GptWake ==
    /\ gptTask = "sleeping"
    /\ elapsed' = elapsed + waits[Len(waits)]
    /\ retry_count' = retry_count + 1
    /\ gptTask' = "calling"
    /\ UNCHANGED <<pc, yolo_results, gpt_results, body, response>>
    /\ UNCHANGED aggVars
    /\ UNCHANGED <<cfgVars, fnVars, error>>
    /\ UNCHANGED svcVars
    /\ UNCHANGED <<yoloTask, yoloOutcome, gptOutcome, future_yolo, future_gpt, waits>>

\* gpt_vision_client.py:268-270: the attempt raises and the retries are used up
GptCallFailsGiveUp ==
    /\ gptTask = "calling"
    /\ retry_count >= max_retries
    /\ gptOutcome' = Raised
    /\ future_gpt' = run_gpt(Raised)
    /\ gptTask' = "done"
    /\ UNCHANGED <<pc, yolo_results, gpt_results, body, response>>
    /\ UNCHANGED aggVars
    /\ UNCHANGED <<cfgVars, fnVars, error>>
    /\ UNCHANGED svcVars
    /\ UNCHANGED <<yoloTask, yoloOutcome, future_yolo, retry_count, waits, elapsed>>

\* gpt_vision_client.py:225-245: time passes while the API call is in flight; nothing
\* in analyze_with_timeout or analyze_image looks at the clock
GptTick ==
    /\ gptTask = "calling"
    /\ elapsed <= timeout
    /\ elapsed' = elapsed + TickSeconds
    /\ UNCHANGED <<pc, yolo_results, gpt_results, body, response>>
    /\ UNCHANGED aggVars
    /\ UNCHANGED <<cfgVars, fnVars, error>>
    /\ UNCHANGED svcVars
    /\ UNCHANGED <<yoloTask, gptTask, yoloOutcome, gptOutcome, future_yolo, future_gpt,
                   retry_count, waits>>

\* A variant of WaitGpt that does not block: it goes on with the initial empty
\* list of line 270 when the task has not resolved
WaitGptNoBlock ==
    /\ pc = "wait_gpt"
    /\ gpt_results' = IF future_gpt.state = "result" THEN future_gpt.value ELSE <<>>
    /\ pc' = "aggregate"
    /\ UNCHANGED <<yolo_results, body, response>>
    /\ UNCHANGED aggVars
    /\ UNCHANGED <<cfgVars, fnVars, error>>
    /\ UNCHANGED svcVars
    /\ UNCHANGED taskVars

\* app.py:294: future_yolo.result() blocks until the task has resolved; an exception
\* held by the future is raised again, the with block then waits for the other task
\* (shutdown(wait=True)) and line 347 answers
WaitYolo ==
    /\ pc = "wait_yolo"
    /\ future_yolo.state \in {"result", "exception"}
    /\ IF future_yolo.state = "result"
       THEN /\ yolo_results' = future_yolo.value
            /\ pc' = "wait_gpt"
            /\ response' = response
       ELSE /\ gptTask = "done"
            /\ yolo_results' = yolo_results
            /\ pc' = "done"
            /\ response' = ErrorResponse("Exception")
    /\ UNCHANGED <<gpt_results, body>>
    /\ UNCHANGED aggVars
    /\ UNCHANGED <<cfgVars, fnVars, error>>
    /\ UNCHANGED svcVars
    /\ UNCHANGED taskVars

\* app.py:295-296: future_gpt.result() blocks until the task has resolved
WaitGpt ==
    /\ pc = "wait_gpt"
    /\ future_gpt.state \in {"result", "exception"}
    /\ IF future_gpt.state = "result"
       THEN /\ gpt_results' = future_gpt.value
            /\ pc' = "aggregate"
            /\ response' = response
       ELSE /\ gpt_results' = gpt_results
            /\ pc' = "done"
            /\ response' = ErrorResponse("Exception")
    /\ UNCHANGED <<yolo_results, body>>
    /\ UNCHANGED aggVars
    /\ UNCHANGED <<cfgVars, fnVars, error>>
    /\ UNCHANGED svcVars
    /\ UNCHANGED taskVars

\* app.py:301: ensemble.aggregate(yolo_results, gpt_results); an exception it
\* raises is answered by line 347
Aggregate ==
    /\ pc = "aggregate"
    /\ LET r == aggregate(yolo_results, gpt_results)
       IN  /\ yolo_results' = r.yolo_results
           /\ gpt_results' = r.gpt_results
           /\ error' = r.error
           /\ IF r.error = "none"
              THEN /\ matches' = r.matches
                   /\ matched_yolo' = r.matched_yolo
                   /\ matched_gpt' = r.matched_gpt
                   /\ ensemble_detections' = r.ensemble_detections
                   /\ final_detections' = r.final_detections
                   /\ kept' = r.kept
                   /\ pc' = "respond"
                   /\ response' = response
              ELSE /\ UNCHANGED aggVars
                   /\ pc' = "done"
                   /\ response' = ErrorResponse(r.error)
    /\ UNCHANGED body
    /\ UNCHANGED taskVars
    /\ UNCHANGED <<cfgVars, fnVars>>
    /\ UNCHANGED svcVars

\* app.py:306-331
Respond ==
    /\ pc = "respond"
    /\ response' = [status |-> 200,
                    code |-> "OK",
                    defects |-> final_detections,
                    yoloDetections |-> Len(yolo_results),
                    gptDetections |-> Len(gpt_results),
                    finalDetections |-> Len(final_detections)]
    /\ pc' = "done"
    /\ UNCHANGED <<yolo_results, gpt_results, body>>
    /\ UNCHANGED aggVars
    /\ UNCHANGED <<cfgVars, fnVars, error>>
    /\ UNCHANGED svcVars
    /\ UNCHANGED taskVars

Next ==
    \/ Validate
    \/ Preprocess
    \/ SubmitYolo
    \/ SubmitGpt
    \/ YoloRun
    \/ GptCallReturns
    \/ GptCallFailsRetry
    \/ GptWake
    \/ GptCallFailsGiveUp
    \/ GptTick
    \/ WaitYolo
    \/ WaitGpt
    \/ Aggregate
    \/ Respond

Spec == Init /\ [][Next]_vars

----------------------------------------------------------------------------
(* Properties of aggregate, checked under AggSpec *)

Range(seq) == {seq[k] : k \in 1..Len(seq)}

Count(seq, v) == Cardinality({k \in 1..Len(seq) : seq[k] = v})

Fields == {"x", "y", "width", "height"}

\* The IoU of yolo_results[i] and gpt_results[j]
PairIou(i, j) == calculate_iou(yolo_results[i].bbox, gpt_results[j].bbox)

\* C4: cross-detector matching is one-to-one: no two matches share their GPT
\* detection and no two matches share their YOLO detection.
C4_MatchingOneToOne ==
    pc = "agg_done" =>
        \A a, b \in 1..Len(matches) :
            a # b => (matches[a].j # matches[b].j /\ matches[a].i # matches[b].i)

\* C5: a pair is a match only if the classes are equal and the IoU is strictly
\* above iou_threshold; a YOLO detection whose same-class IoUs are all at most
\* the threshold (none at all when its class is absent from the GPT list) is
\* not matched, and a detection of either list whose class is absent from the
\* other list is unmatched and is in the pool exactly when its confidence
\* exceeds the retention threshold.
C5_MatchOnlyAboveThreshold ==
    pc = "agg_done" =>
        /\ \A k \in 1..Len(matches) :
              LET i == matches[k].i
                  j == matches[k].j
              IN  /\ i \in 1..Len(yolo_results)
                  /\ j \in 1..Len(gpt_results)
                  /\ yolo_results[i].class = gpt_results[j].class
                  /\ PairIou(i, j).num * 100 > iou_threshold * PairIou(i, j).den
        /\ \A i \in 1..Len(yolo_results) :
              (\A j \in 1..Len(gpt_results) :
                   yolo_results[i].class = gpt_results[j].class
                       => PairIou(i, j).num * 100 <= iou_threshold * PairIou(i, j).den)
                  => i \notin matched_yolo
        /\ \A i \in 1..Len(yolo_results) :
              (\A j \in 1..Len(gpt_results) : yolo_results[i].class # gpt_results[j].class)
                  => /\ i \notin matched_yolo
                     /\ (yolo_results[i] \in Range(ensemble_detections)
                            <=> yolo_results[i].confidence > RetentionThreshold)
        /\ \A j \in 1..Len(gpt_results) :
              (\A i \in 1..Len(yolo_results) : yolo_results[i].class # gpt_results[j].class)
                  => /\ j \notin matched_gpt
                     /\ (gpt_results[j] \in Range(ensemble_detections)
                            <=> gpt_results[j].confidence > RetentionThreshold)

\* C5 witness: one YOLO detection is matched while another one, whose best
\* same-class IoU is exactly the threshold, is not.
C5_Witness ==
    /\ pc = "agg_done"
    /\ matches # <<>>
    /\ \E i \in 1..Len(yolo_results) :
          /\ i \notin matched_yolo
          /\ \E j \in 1..Len(gpt_results) :
                /\ yolo_results[i].class = gpt_results[j].class
                /\ PairIou(i, j).num * 100 = iou_threshold * PairIou(i, j).den

\* C6: the k-th match puts exactly one merged detection into the pool: source
\* 'ensemble', class of the YOLO detection, confidence
\* confA * yolo_weight + confB * gpt_weight (not renormalised); the pool holds
\* one 'ensemble' detection per match, and no detection of a matched position
\* enters the pool on its own.
C6_MergedDetection ==
    pc = "agg_done" =>
        /\ Len(ensemble_detections) >= Len(matches)
        /\ \A k \in 1..Len(matches) :
              LET merged == ensemble_detections[k]
                  a == yolo_results[matches[k].i]
                  b == gpt_results[matches[k].j]
              IN  /\ merged.source = "ensemble"
                  /\ merged.class = a.class
                  /\ merged.confidence * 100 = a.confidence * yolo_weight + b.confidence * gpt_weight
        /\ Cardinality({n \in 1..Len(ensemble_detections) :
                            ensemble_detections[n].source = "ensemble"}) = Len(matches)
        /\ Cardinality(matched_yolo) = Len(matches)
        /\ \A v \in Range(yolo_results) :
              Count(ensemble_detections, v)
                  <= Cardinality({i \in 1..Len(yolo_results) :
                                      yolo_results[i] = v /\ i \notin matched_yolo})
        /\ \A v \in Range(gpt_results) :
              Count(ensemble_detections, v)
                  <= Cardinality({j \in 1..Len(gpt_results) :
                                      gpt_results[j] = v /\ j \notin matched_gpt})

\* C6 witness: confidences 0.85 and 0.80 were merged into 0.83.
C6_Witness ==
    /\ pc = "agg_done"
    /\ \E k \in 1..Len(matches) :
          /\ yolo_results[matches[k].i].confidence = 8500
          /\ gpt_results[matches[k].j].confidence = 8000
          /\ ensemble_detections[k].confidence = 8300

\* C7 as claimed: every bbox field of a merged detection is the arithmetic mean
\* of the two input fields.
C7_BBoxIsMean ==
    pc = "agg_done" =>
        \A k \in 1..Len(matches) : \A f \in Fields :
            2 * ensemble_detections[k].bbox[f]
                = yolo_results[matches[k].i].bbox[f] + gpt_results[matches[k].j].bbox[f]

\* C7 amended: every bbox field of a merged detection is the arithmetic mean of
\* the two input fields truncated toward zero to an integer: the mean itself
\* when the sum is even, the mean less 1/2 when the sum is odd and positive,
\* the mean plus 1/2 when the sum is odd and negative.
C7_BBoxIsTruncatedMean ==
    pc = "agg_done" =>
        \A k \in 1..Len(matches) : \A f \in Fields :
            LET m == ensemble_detections[k].bbox[f]
                sum == yolo_results[matches[k].i].bbox[f] + gpt_results[matches[k].j].bbox[f]
            IN  /\ sum % 2 = 0 => 2 * m = sum
                /\ (sum % 2 = 1 /\ sum > 0) => 2 * m = sum - 1
                /\ (sum % 2 = 1 /\ sum < 0) => 2 * m = sum + 1

\* C7 witness: a merged pair with an odd positive and an odd negative field sum.
C7_Witness ==
    /\ pc = "agg_done"
    /\ \E k \in 1..Len(matches) :
          LET a == yolo_results[matches[k].i].bbox
              b == gpt_results[matches[k].j].bbox
          IN  /\ (a.width + b.width) % 2 = 1
              /\ a.x + b.x < 0
              /\ (a.x + b.x) % 2 = 1

\* C8: an unmatched detection of either list is in the pool if and only if its
\* confidence is strictly above 0.7: every tagged detection occurs in the pool
\* as often as it occurs at unmatched positions of its list when its confidence
\* exceeds the threshold, and not at all otherwise; no detection of confidence
\* <= 0.7 that is not a merged one is in the output.
C8_UnmatchedRetention ==
    pc = "agg_done" =>
        /\ \A v \in Range(yolo_results) :
              Count(ensemble_detections, v)
                  = IF v.confidence > RetentionThreshold
                    THEN Cardinality({i \in 1..Len(yolo_results) :
                                          yolo_results[i] = v /\ i \notin matched_yolo})
                    ELSE 0
        /\ \A v \in Range(gpt_results) :
              Count(ensemble_detections, v)
                  = IF v.confidence > RetentionThreshold
                    THEN Cardinality({j \in 1..Len(gpt_results) :
                                          gpt_results[j] = v /\ j \notin matched_gpt})
                    ELSE 0
        /\ \A d \in Range(final_detections) :
              d.source # "ensemble" => d.confidence > RetentionThreshold

\* C8 witness: the GPT list is empty, one YOLO detection of confidence exactly
\* 0.70 was dropped and one of higher confidence was kept.
C8_Witness ==
    /\ pc = "agg_done"
    /\ gpt_results = <<>>
    /\ \E i, k \in 1..Len(yolo_results) :
          /\ yolo_results[i].confidence = RetentionThreshold
          /\ yolo_results[i] \notin Range(final_detections)
          /\ yolo_results[k] \in Range(final_detections)

----------------------------------------------------------------------------
(* Properties of apply_nms, checked under NmsSpec *)

KeptSet == Range(kept)

PoolIou(a, b) == calculate_iou(ensemble_detections[a].bbox, ensemble_detections[b].bbox)

\* C9: a detection of the pool is discarded only on account of a kept detection
\* of its own class that overlaps it: a detection with no other detection of
\* its class in the pool is always kept, whatever overlaps it.
C9_NmsSameClassOnly ==
    pc = "nms_done" =>
        /\ \A n \in 1..Len(ensemble_detections) :
              n \notin KeptSet =>
                  \E c \in KeptSet :
                      /\ c # n
                      /\ ensemble_detections[c].class = ensemble_detections[n].class
                      /\ PoolIou(c, n).num * 100 >= nms_threshold * PoolIou(c, n).den
        /\ \A n \in 1..Len(ensemble_detections) :
              (\A c \in 1..Len(ensemble_detections) :
                   c # n => ensemble_detections[c].class # ensemble_detections[n].class)
                  => n \in KeptSet

\* C9 witness: two detections of different classes with the same box both
\* survive, the lower-confidence one included.
C9_Witness ==
    /\ pc = "nms_done"
    /\ \E a, b \in KeptSet :
          /\ ensemble_detections[a].class # ensemble_detections[b].class
          /\ ensemble_detections[a].bbox = ensemble_detections[b].bbox
          /\ ensemble_detections[a].confidence > ensemble_detections[b].confidence

\* C10: no two detections of the same class in the output of apply_nms have an
\* IoU greater than or equal to nms_threshold.
C10_NoOverlapInOutput ==
    pc = "nms_done" =>
        \A a, b \in 1..Len(final_detections) :
            (a # b /\ final_detections[a].class = final_detections[b].class)
                => LET iou == calculate_iou(final_detections[a].bbox, final_detections[b].bbox)
                   IN  iou.num * 100 < nms_threshold * iou.den

\* C10 witness: a detection whose IoU with a kept detection of its class is
\* exactly nms_threshold was discarded.
C10_Witness ==
    /\ pc = "nms_done"
    /\ \E n \in 1..Len(ensemble_detections) :
          /\ n \notin KeptSet
          /\ \A c \in KeptSet :
                ensemble_detections[c].class = ensemble_detections[n].class
                    => PoolIou(c, n).num * 100 <= nms_threshold * PoolIou(c, n).den
          /\ \E c \in KeptSet :
                /\ ensemble_detections[c].class = ensemble_detections[n].class
                /\ PoolIou(c, n).num * 100 = nms_threshold * PoolIou(c, n).den

----------------------------------------------------------------------------
(* Properties of detect_defects, checked under Spec *)

BothResolved ==
    /\ yoloTask = "done"
    /\ gptTask = "done"
    /\ future_yolo.state = "result"
    /\ future_gpt.state = "result"

\* C1: aggregate is invoked only after both detector tasks have resolved, and
\* on the results of both: when the handler is about to call it both tasks are
\* done and its arguments are the two futures' values; while a task is still
\* unresolved the aggregator has produced nothing; what it produced is the
\* aggregation of both futures' values.
C1_AggregateAfterJoin ==
    /\ pc = "aggregate" =>
          /\ BothResolved
          /\ yolo_results = future_yolo.value
          /\ gpt_results = future_gpt.value
    /\ ~BothResolved =>
          /\ pc \notin {"aggregate", "respond"}
          /\ response.status # 200
          /\ AggEmpty
    /\ (pc = "respond" \/ response.status = 200) =>
          /\ BothResolved
          /\ yolo_results = TagAll(future_yolo.value, "yolo")
          /\ gpt_results = TagAll(future_gpt.value, "gpt")
          /\ final_detections = aggregate(future_yolo.value, future_gpt.value).final_detections

\* C1 witness: the aggregator has run on two non-empty detector results.
C1_Witness ==
    /\ pc = "respond"
    /\ future_yolo.state = "result"
    /\ future_gpt.state = "result"
    /\ future_yolo.value # <<>>
    /\ future_gpt.value # <<>>
    /\ final_detections # <<>>

\* C2: a failure raised inside a detector invocation becomes an empty list for
\* that detector only: its future holds the empty list, the other detector's
\* future holds exactly what that detector returned, the aggregator receives
\* the two futures' values unchanged, the handler can always go on, and a
\* request whose detectors were started never ends in an error reply.
C2_DetectorFailureIsolated ==
    /\ yoloOutcome.kind = "raised" => future_yolo = Result(<<>>)
    /\ gptOutcome.kind = "raised" => future_gpt = Result(<<>>)
    /\ yoloOutcome.kind = "returned" => future_yolo = Result(yoloOutcome.value)
    /\ gptOutcome.kind = "returned" => future_gpt = Result(gptOutcome.value)
    /\ pc = "aggregate" =>
          /\ yolo_results = future_yolo.value
          /\ gpt_results = future_gpt.value
    /\ ((yoloOutcome.kind = "raised" \/ gptOutcome.kind = "raised") /\ pc # "done")
          => ENABLED Next
    /\ (pc = "done" /\ yoloTask # "unsubmitted") => response.status = 200

\* C2 witness: the YOLO detector raised, the GPT detector returned a detection,
\* and the request succeeded with that detection in its defects.
C2_Witness ==
    /\ pc = "done"
    /\ yoloOutcome.kind = "raised"
    /\ gptOutcome.kind = "returned"
    /\ gptOutcome.value # <<>>
    /\ response.status = 200
    /\ response.yoloDetections = 0
    /\ response.gptDetections = 1
    /\ response.defects # <<>>

\* C3: once the semantic detector's call has run longer than the timeout the
\* handler passes to analyze_with_timeout, the task has been abandoned: it has
\* resolved, and to the empty list.
C3_TimeoutAbandonsCall ==
    elapsed > timeout => (gptTask = "done" /\ future_gpt = Result(<<>>))

----------------------------------------------------------------------------
(* Properties of aggregate on well-formed input, checked under AggSpec *)

Area(bbox) == bbox.width * bbox.height

\* C11: aggregate never fails on well-formed input: on lists of detections that
\* carry class, confidence and a bbox with width, height >= 0 the call returns a
\* list and raises nothing, and on two empty lists it returns the empty list.
C11_AggregateNeverFails ==
    pc = "agg_done" =>
        /\ error = "none"
        /\ DOMAIN final_detections = 1..Len(final_detections)
        /\ (yolo_results = <<>> /\ gpt_results = <<>>) => final_detections = <<>>

\* The call has returned on lists that hold two same-class boxes of zero area,
\* whose union area is zero
C11_Witness ==
    /\ pc = "agg_done"
    /\ error = "none"
    /\ \E i \in 1..Len(yolo_results) :
          \E j \in 1..Len(gpt_results) :
             /\ yolo_results[i].class = gpt_results[j].class
             /\ Area(yolo_results[i].bbox) = 0
             /\ Area(gpt_results[j].bbox) = 0

----------------------------------------------------------------------------
(* ScenarioSpec: aggregate on the detections of the test fixtures,          *)
(* test_ml_service.py:68-99 and 580-591                                     *)

\* At most this many detections in one input list of ScenarioSpec
MaxScenario == 2

\* sample_yolo_detections
ScenarioYolo ==
    <<[class |-> "damaged_rivet", confidence |-> 8500, bbox |-> Box(100, 150, 50, 60)],
      [class |-> "missing_rivet", confidence |-> 7500, bbox |-> Box(200, 250, 40, 50)]>>

\* sample_gpt_detections with its first element replaced as in lines 585-589
ScenarioGpt ==
    <<[class |-> "damaged_rivet", confidence |-> 8000, bbox |-> Box(102, 152, 48, 58)],
      [class |-> "crack", confidence |-> 7000, bbox |-> Box(300, 350, 60, 70)]>>

\* The first element of sample_gpt_detections as the fixture has it
FixtureGptFirst ==
    [class |-> "damaged_rivet", confidence |-> 8000, bbox |-> Box(105, 155, 48, 58)]

ScenarioInit ==
    /\ pc = "agg_input"
    /\ yolo_results \in SeqsUpTo({ScenarioYolo[1], ScenarioYolo[2]}, MaxScenario)
    /\ gpt_results \in SeqsUpTo({ScenarioGpt[1], ScenarioGpt[2], FixtureGptFirst}, MaxScenario)
    /\ AggEmpty
    /\ ReqIdle
    /\ Configured
    /\ FnIdle
    /\ error = "none"
    /\ SvcIdle

ScenarioSpec == ScenarioInit /\ [][AggNext]_vars

\* C12: with weights 0.6 / 0.4 and iou_threshold 0.5, on the YOLO list
\* [damaged_rivet 0.85 (100,150,50,60), missing_rivet 0.75 (200,250,40,50)] and the
\* GPT list [damaged_rivet 0.80 (102,152,48,58), crack 0.70 (300,350,60,70)]
\* aggregate returns exactly two detections: one merged damaged_rivet with source
\* 'ensemble' and the unmatched missing_rivet as it was given; the crack is dropped.
C12_EndToEndScenario ==
    (/\ pc = "agg_done"
     /\ yolo_results = TagAll(ScenarioYolo, "yolo")
     /\ gpt_results = TagAll(ScenarioGpt, "gpt"))
        => /\ error = "none"
           /\ Len(final_detections) = 2
           /\ Cardinality({k \in 1..2 : /\ final_detections[k].source = "ensemble"
                                        /\ final_detections[k].class = "damaged_rivet"}) = 1
           /\ Cardinality({k \in 1..2 : final_detections[k] = Tag(ScenarioYolo[2], "yolo")}) = 1
           /\ \A k \in 1..2 : final_detections[k].class # "crack"

\* The call has returned on the two lists of the scenario
C12_Witness ==
    /\ pc = "agg_done"
    /\ yolo_weight = 60
    /\ gpt_weight = 40
    /\ yolo_results = TagAll(ScenarioYolo, "yolo")
    /\ gpt_results = TagAll(ScenarioGpt, "gpt")
    /\ Len(final_detections) = 2

----------------------------------------------------------------------------
(* IouSpec: EnsembleAggregator.calculate_iou on every pair of boxes, called *)
(* with the arguments in both orders                                        *)

\* Boxes have x, y in 0..MaxCoord and width, height in 0..MaxSide
MaxCoord == 2

MaxSide == 2

IouBoxes == [x : 0..MaxCoord, y : 0..MaxCoord, width : 0..MaxSide, height : 0..MaxSide]

IouInit ==
    /\ pc = "iou_input"
    /\ bbox1 \in IouBoxes
    /\ bbox2 \in IouBoxes
    /\ iou_12 = IouZero
    /\ iou_21 = IouZero
    /\ image = <<0, 0>>
    /\ resized = NotResized
    /\ padded = <<0, 0, 0>>
    /\ response_text = <<>>
    /\ results = <<>>
    /\ original_dimensions = <<0, 0>>
    /\ returned = <<>>
    /\ yolo_results = <<>>
    /\ gpt_results = <<>>
    /\ AggEmpty
    /\ ReqIdle
    /\ Configured
    /\ error = "none"
    /\ SvcIdle

\* calculate_iou(bbox1, bbox2), then calculate_iou(bbox2, bbox1); a call that
\* raises leaves no return value
IouCall ==
    /\ pc = "iou_input"
    /\ LET r12 == calculate_iou(bbox1, bbox2)
           r21 == calculate_iou(bbox2, bbox1)
       IN  /\ iou_12' = IF IouRaised(r12) THEN iou_12 ELSE r12
           /\ iou_21' = IF IouRaised(r12) \/ IouRaised(r21) THEN iou_21 ELSE r21
           /\ error' = IF IouRaised(r12) \/ IouRaised(r21) THEN "ZeroDivisionError" ELSE "none"
    /\ pc' = "iou_done"
    /\ UNCHANGED <<bbox1, bbox2, response_text, results, original_dimensions, returned>>
    /\ UNCHANGED <<yolo_results, gpt_results>>
    /\ UNCHANGED aggVars
    /\ UNCHANGED reqVars
    /\ UNCHANGED cfgVars
    /\ UNCHANGED <<image, resized, padded>>
    /\ UNCHANGED svcVars

IouNext == IouCall

IouSpec == IouInit /\ [][IouNext]_vars

\* Width and height of the overlap rectangle of bbox1 and bbox2 (negative when
\* the boxes are apart on that axis)
OverlapWidth == Min(bbox1.x + bbox1.width, bbox2.x + bbox2.width) - Max(bbox1.x, bbox2.x)

OverlapHeight == Min(bbox1.y + bbox1.height, bbox2.y + bbox2.height) - Max(bbox1.y, bbox2.y)

\* C13: IoU is symmetric: calculate_iou(a, b) and calculate_iou(b, a) return the
\* same value for all boxes a, b with width, height >= 0.
C13_IouSymmetric ==
    pc = "iou_done" =>
        /\ error = "none"
        /\ iou_12.num * iou_21.den = iou_21.num * iou_12.den

\* Two different boxes that overlap in part, with both calls made
C13_Witness ==
    /\ pc = "iou_done"
    /\ bbox1 # bbox2
    /\ Area(bbox1) # Area(bbox2)
    /\ iou_12.num > 0
    /\ iou_12.num < iou_12.den
    /\ iou_12 = iou_21

\* C14 as stated: calculate_iou(a, a) = 1.0 for every box a with width, height >= 0.
C14_IdenticalBoxesIouOne ==
    (pc = "iou_done" /\ bbox1 = bbox2) =>
        /\ error = "none"
        /\ iou_12.den > 0
        /\ iou_12.num = iou_12.den

\* C14 amended: calculate_iou(a, a) = 1.0 for every box a with width > 0 and
\* height > 0; for a box of zero area (width = 0 or height = 0) it is 0.0.
C14_IdenticalPositiveBoxesIouOne ==
    (pc = "iou_done" /\ bbox1 = bbox2) =>
        /\ error = "none"
        /\ iou_12.den > 0
        /\ Area(bbox1) > 0 => iou_12.num = iou_12.den
        /\ Area(bbox1) = 0 => iou_12.num = 0

\* A box of positive area compared with itself
C14_Witness ==
    /\ pc = "iou_done"
    /\ bbox1 = bbox2
    /\ Area(bbox1) > 0
    /\ iou_12.num = iou_12.den

\* C15: calculate_iou returns exactly 0.0 and raises nothing whenever the overlap
\* rectangle of the two boxes has zero area: the boxes are disjoint, or only touch
\* along an edge or at a corner, or the union area is zero (two boxes of zero area).
C15_ZeroOverlapIouZero ==
    (pc = "iou_done" /\ (OverlapWidth <= 0 \/ OverlapHeight <= 0)) =>
        /\ error = "none"
        /\ iou_12.den > 0
        /\ iou_12.num = 0

\* Two boxes of zero area at the same place: the union area is zero and the
\* early return of lines 60-61 is not taken
C15_Witness ==
    /\ pc = "iou_done"
    /\ Area(bbox1) = 0
    /\ Area(bbox2) = 0
    /\ OverlapWidth = 0
    /\ OverlapHeight = 0
    /\ error = "none"
    /\ iou_12 = IouZero

----------------------------------------------------------------------------
(* Provenance of the detections aggregate returns, checked under AggSpec *)

\* The number of unmatched YOLO detections that lines 224-230 put into the pool
RetainedYolo ==
    Cardinality({i \in 1..Len(yolo_results) :
                    i \notin matched_yolo /\ yolo_results[i].confidence > RetentionThreshold})

\* det has the class, confidence and bbox of an element of dets
CameFrom(det, dets) ==
    \E k \in 1..Len(dets) :
       /\ dets[k].class = det.class
       /\ dets[k].confidence = det.confidence
       /\ dets[k].bbox = det.bbox

\* C16: every detection aggregate returns carries a source: it is 'ensemble'
\* exactly when the detection was produced by merging a matched pair, and
\* otherwise it is the tag of the detector whose input list the detection came
\* from ('yolo' for the YOLO list, 'gpt' for the GPT list).
C16_ProvenanceTag ==
    pc = "agg_done" =>
        \A n \in 1..Len(final_detections) :
           LET det == final_detections[n]
               p == kept[n]
           IN  /\ "source" \in DOMAIN det
               /\ det.source \in {"ensemble", "yolo", "gpt"}
               /\ det.source = "ensemble" <=> p <= Len(matches)
               /\ (p > Len(matches) /\ p <= Len(matches) + RetainedYolo)
                     => (det.source = "yolo" /\ CameFrom(det, yolo_results))
               /\ p > Len(matches) + RetainedYolo
                     => (det.source = "gpt" /\ CameFrom(det, gpt_results))

\* A returned list that holds a merged detection and an unmatched one
C16_Witness ==
    /\ pc = "agg_done"
    /\ \E n \in 1..Len(final_detections) : final_detections[n].source = "ensemble"
    /\ \E n \in 1..Len(final_detections) : final_detections[n].source \in {"yolo", "gpt"}

----------------------------------------------------------------------------
(* PostSpec: YOLODetector.postprocess on the boxes the model found on the   *)
(* processed (letterboxed) image, yolo_detector.py:106-182.  The float      *)
(* coordinates of box.xyxy are in units of 1/10 pixel.                      *)

\* app.py:55 target_size=640
target_size == 640

\* At most this many boxes in the results of one inference
MaxBoxes == 1

\* Widths and heights of original images, within image_preprocessor.py:97-107
Dimensions == {640, 1280}

\* yolo_detector.py:21-34
CLASS_NAMES ==
    <<"damaged_rivet", "missing_rivet", "filiform_corrosion", "missing_panel",
      "paint_detachment", "scratch", "composite_damage", "random_damage",
      "burn_mark", "scorch_mark", "metal_fatigue", "crack">>

\* What box.xyxy, box.conf and box.cls hold for one box of the processed image
RawBoxes ==
    {[xyxy |-> <<x1, y1, x1 + w, y1 + 400>>, conf |-> 8500, cls |-> c] :
        x1 \in {0, 1600, 3205}, y1 \in {1600, 3200}, w \in {400, 805}, c \in {0, 12}}

\* int(v) of a float v given in 1/10: truncation toward zero
IntOfTenths(v) == IF v >= 0 THEN v \div 10 ELSE -((-v) \div 10)

\* lines 146-151, for a custom model whose names are CLASS_NAMES
ClassName(class_idx) ==
    IF class_idx < Len(CLASS_NAMES) THEN CLASS_NAMES[class_idx + 1] ELSE "class_n"

\* lines 121-177; dims (original_dimensions) is not read
postprocess(res, dims) ==
    [k \in 1..Len(res) |->
        LET x1 == res[k].xyxy[1]
            y1 == res[k].xyxy[2]
            x2 == res[k].xyxy[3]
            y2 == res[k].xyxy[4]
        IN  [class |-> ClassName(res[k].cls),
             confidence |-> res[k].conf,
             bbox |-> [x |-> IntOfTenths(x1),
                       y |-> IntOfTenths(y1),
                       width |-> IntOfTenths(x2 - x1),
                       height |-> IntOfTenths(y2 - y1)]]]

\* The pairs (side, longer side) of the sides used here for which the double
\* side * (target_size / longer) is one unit in the last place below an integer:
\* 1077 * (640 / 1077) is 639.9999999999999
OneBelow == {<<1077, 1077>>}

\* int(side * scale) with scale = target_size / longer on IEEE-754 doubles
IntOfScaled(side, longer) ==
    IF <<side, longer>> \in OneBelow
    THEN (side * target_size) \div longer - 1
    ELSE (side * target_size) \div longer

\* A variant of new_width whose scale fills the square: max instead of min at line 125
new_width_fill(width, height) == (width * target_size) \div Min(width, height)

\* image_preprocessor.py:125-129: the sides of the resized image inside the square;
\* min(target_size / width, target_size / height) is target_size / max(width, height)
new_width(width, height) == IntOfScaled(width, Max(width, height))

new_height(width, height) == IntOfScaled(height, Max(width, height))

\* image_preprocessor.py:138-139
x_offset(width, height) == (target_size - new_width(width, height)) \div 2

y_offset(width, height) == (target_size - new_height(width, height)) \div 2

PostInit ==
    /\ pc = "post_input"
    /\ results \in SeqsUpTo(RawBoxes, MaxBoxes)
    /\ original_dimensions \in Dimensions \X Dimensions
    /\ returned = <<>>
    /\ bbox1 = Box(0, 0, 0, 0)
    /\ bbox2 = Box(0, 0, 0, 0)
    /\ iou_12 = IouZero
    /\ iou_21 = IouZero
    /\ image = <<0, 0>>
    /\ resized = NotResized
    /\ padded = <<0, 0, 0>>
    /\ response_text = <<>>
    /\ yolo_results = <<>>
    /\ gpt_results = <<>>
    /\ AggEmpty
    /\ ReqIdle
    /\ Configured
    /\ error = "none"
    /\ SvcIdle

\* One call of postprocess(results, original_dimensions)
Postprocess ==
    /\ pc = "post_input"
    /\ returned' = postprocess(results, original_dimensions)
    /\ pc' = "post_done"
    /\ UNCHANGED <<results, original_dimensions, bbox1, bbox2, iou_12, iou_21, response_text>>
    /\ UNCHANGED <<yolo_results, gpt_results, error>>
    /\ UNCHANGED aggVars
    /\ UNCHANGED reqVars
    /\ UNCHANGED cfgVars
    /\ UNCHANGED <<image, resized, padded>>
    /\ UNCHANGED svcVars

PostNext == Postprocess

PostSpec == PostInit /\ [][PostNext]_vars

\* The pixel of the original image that a coordinate v (in 1/10 pixel) of the
\* processed image shows: the letterbox offset taken off, the scale undone
ToOriginal(v, offset, side, new_side) == ((v - 10 * offset) * side) \div (10 * new_side)

Near(a, b) == a - b <= 1 /\ b - a <= 1

\* C17: the boxes the geometric detector returns for the processed
\* target_size x target_size image are in the pixel coordinates of the original
\* image (to within one pixel of rounding): the letterbox offset and the resize
\* scale are undone before the boxes go to the aggregator.
C17_BBoxInOriginalSpace ==
    pc = "post_done" =>
        \A k \in 1..Len(returned) :
           LET width == original_dimensions[1]
               height == original_dimensions[2]
               nw == new_width(width, height)
               nh == new_height(width, height)
               xo == x_offset(width, height)
               yo == y_offset(width, height)
               x1 == ToOriginal(results[k].xyxy[1], xo, width, nw)
               y1 == ToOriginal(results[k].xyxy[2], yo, height, nh)
               x2 == ToOriginal(results[k].xyxy[3], xo, width, nw)
               y2 == ToOriginal(results[k].xyxy[4], yo, height, nh)
           IN  /\ Near(returned[k].bbox.x, x1)
               /\ Near(returned[k].bbox.y, y1)
               /\ Near(returned[k].bbox.width, x2 - x1)
               /\ Near(returned[k].bbox.height, y2 - y1)

----------------------------------------------------------------------------
(* WeightSpec: aggregate under every configuration of the two ensemble      *)
(* weights, which utils/config.py:29-30 reads from the environment as floats *)

\* Values of ENSEMBLE_YOLO_WEIGHT and ENSEMBLE_GPT_WEIGHT, in 1/100
Weights == {0, 40, 60, 100}

WeightInit ==
    /\ pc = "agg_input"
    /\ yolo_weight \in Weights
    /\ gpt_weight \in Weights
    /\ yolo_results \in SeqsUpTo(ReqYoloDets, MaxDetect)
    /\ gpt_results \in SeqsUpTo(ReqGptDets, MaxDetect)
    /\ AggEmpty
    /\ ReqIdle
    /\ FnIdle
    /\ error = "none"
    /\ SvcIdle

WeightSpec == WeightInit /\ [][AggNext]_vars

\* C18: every detection aggregate returns, merged ones included, has its
\* confidence in [0.0, 1.0], for all input detections with confidence in
\* [0.0, 1.0] and all configured values of yolo_weight and gpt_weight.
C18_ConfidenceInUnitInterval ==
    pc = "agg_done" =>
        \A n \in 1..Len(final_detections) :
           /\ final_detections[n].confidence >= 0
           /\ final_detections[n].confidence <= 10000

----------------------------------------------------------------------------
(* FairSpec: the request with every external call and every sleep coming to *)
(* an end: client.chat.completions.create returns or raises, time.sleep     *)
(* returns, and a submitted task is run by one of the two pool workers      *)

FairSpec ==
    /\ Spec
    /\ WF_vars(GptCallReturns \/ GptCallFailsRetry \/ GptCallFailsGiveUp)
    /\ WF_vars(GptWake)

\* C19: analyze_image retries a failed call with exponential backoff: before
\* retry number k (k = 0, 1, ...) it sleeps 2^k seconds, it makes at most
\* max_retries retries (max_retries + 1 calls), it returns the result of the
\* first successful call, it raises once the retries are used up, the raised
\* failure reaches the orchestrator as an empty list, and it always terminates.
C19_RetryWithBackoff ==
    /\ [](/\ retry_count \in 0..max_retries
          /\ Len(waits) <= max_retries
          /\ \A k \in 1..Len(waits) : waits[k] = 2 ^ (k - 1)
          /\ gptTask = "calling" => Len(waits) = retry_count
          /\ gptTask = "sleeping" => Len(waits) = retry_count + 1
          /\ gptOutcome.kind = "returned" =>
                (gptTask = "done" /\ future_gpt = Result(gptOutcome.value))
          /\ gptOutcome.kind = "raised" =>
                /\ gptTask = "done"
                /\ retry_count = max_retries
                /\ Len(waits) = max_retries
                /\ future_gpt = Result(<<>>))
    /\ (gptTask \in {"calling", "sleeping"}) ~> (gptTask = "done")

\* Every call has failed: three sleeps of 1, 2 and 4 seconds, four calls, and
\* the task hands the orchestrator an empty list
C19_Witness ==
    /\ gptTask = "done"
    /\ gptOutcome.kind = "raised"
    /\ retry_count = 3
    /\ waits = <<1, 2, 4>>
    /\ future_gpt = Result(<<>>)

----------------------------------------------------------------------------
(* ParseSpec: GPTVisionClient.parse_response, gpt_vision_client.py:121-196. *)
(* response_text is given by its markdown fence and by what json.loads      *)
(* makes of the text inside; JSON numbers of a bbox are in 1/10.            *)

\* At most this many elements in the JSON array of a response
MaxElements == 2

\* gpt_vision_client.py:23-36
DEFECT_CLASSES ==
    <<"damaged_rivet", "missing_rivet", "filiform_corrosion", "missing_panel",
      "paint_detachment", "scratch", "composite_damage", "random_damage",
      "burn_mark", "scorch_mark", "metal_fatigue", "crack">>

RequiredKeys == {"class", "confidence", "bbox"}

\* One element of the decoded array.  dict: it is a JSON object; keys: its keys;
\* confidence.numeric: float() accepts the value; bbox.dict: the value is a JSON
\* object (has .get), bbox.keys: the keys that object has
Element(is_dict, keys, class_name, numeric, bbox_is_dict, bbox_keys) ==
    [dict |-> is_dict,
     keys |-> keys,
     class |-> class_name,
     confidence |-> [numeric |-> numeric, value |-> 9000],
     bbox |-> [dict |-> bbox_is_dict, keys |-> bbox_keys,
               x |-> 19, y |-> 20, width |-> 30, height |-> 45]]

JsonElements ==
    {Element(TRUE, RequiredKeys, "crack", TRUE, TRUE, Fields),
     Element(TRUE, RequiredKeys, "damaged_rivet", TRUE, TRUE, {"x", "y"}),
     Element(TRUE, RequiredKeys, "dent", TRUE, TRUE, Fields),
     Element(TRUE, {"confidence", "bbox"}, "crack", TRUE, TRUE, Fields),
     Element(TRUE, {"class", "bbox"}, "crack", TRUE, TRUE, Fields),
     Element(TRUE, {"class", "confidence"}, "crack", TRUE, TRUE, Fields),
     Element(TRUE, RequiredKeys, "crack", FALSE, TRUE, Fields),
     Element(TRUE, RequiredKeys, "crack", TRUE, FALSE, Fields),
     Element(FALSE, {}, "crack", TRUE, TRUE, Fields)}

\* The texts a response can be: not JSON at all, a JSON number, a JSON object, or
\* a JSON array; bare, or wrapped in a markdown fence with or without the word json
Responses ==
    {[fence |-> f, json |-> j, elements |-> <<>>] :
        f \in {"none", "json_fence", "plain_fence"}, j \in {"invalid", "number", "object"}}
    \cup
    {[fence |-> f, json |-> "array", elements |-> es] :
        f \in {"none", "json_fence", "plain_fence"}, es \in SeqsUpTo(JsonElements, MaxElements)}

\* lines 136-150: the fence is cut off and the rest is decoded
detections_raw(text) == [json |-> text.json, elements |-> text.elements]

\* lines 155-167: the element is skipped with continue
Skipped(det) ==
    \/ ~det.dict
    \/ ~(RequiredKeys \subseteq det.keys)
    \/ \A c \in 1..Len(DEFECT_CLASSES) : DEFECT_CLASSES[c] # det.class

\* lines 172-178: float(det['confidence']) or det['bbox'].get raises
FormatRaises(det) == ~det.confidence.numeric \/ ~det.bbox.dict

\* int(det['bbox'].get(key, 0))
BBoxGet(bbox, key) == IF key \in bbox.keys THEN IntOfTenths(bbox[key]) ELSE 0

\* lines 170-179
FormatDetection(det) ==
    [class |-> det.class,
     confidence |-> det.confidence.value,
     bbox |-> [x |-> BBoxGet(det.bbox, "x"),
               y |-> BBoxGet(det.bbox, "y"),
               width |-> BBoxGet(det.bbox, "width"),
               height |-> BBoxGet(det.bbox, "height")]]

\* lines 153-185: the loop from element k on; an exception leaves the loop
RECURSIVE ParseLoop(_, _, _)
ParseLoop(raw, k, acc) ==
    IF k > Len(raw)
    THEN [raised |-> FALSE, detections |-> acc]
    ELSE IF Skipped(raw[k])
         THEN ParseLoop(raw, k + 1, acc)
         ELSE IF FormatRaises(raw[k])
              THEN [raised |-> TRUE, detections |-> acc]
              ELSE ParseLoop(raw, k + 1, Append(acc, FormatDetection(raw[k])))

\* lines 121-196: json.JSONDecodeError and every other exception give []; the
\* keys of a JSON object are strings and are skipped at line 155; a JSON number
\* cannot be iterated
parse_response(text) ==
    LET raw == detections_raw(text)
    IN  IF raw.json \in {"invalid", "number", "object"}
        THEN <<>>
        ELSE LET r == ParseLoop(raw.elements, 1, <<>>)
             IN  IF r.raised THEN <<>> ELSE r.detections

ParseInit ==
    /\ pc = "parse_input"
    /\ response_text \in Responses
    /\ returned = <<>>
    /\ bbox1 = Box(0, 0, 0, 0)
    /\ bbox2 = Box(0, 0, 0, 0)
    /\ iou_12 = IouZero
    /\ iou_21 = IouZero
    /\ image = <<0, 0>>
    /\ resized = NotResized
    /\ padded = <<0, 0, 0>>
    /\ results = <<>>
    /\ original_dimensions = <<0, 0>>
    /\ yolo_results = <<>>
    /\ gpt_results = <<>>
    /\ AggEmpty
    /\ ReqIdle
    /\ Configured
    /\ error = "none"
    /\ SvcIdle

\* One call of parse_response(response_text)
ParseCall ==
    /\ pc = "parse_input"
    /\ returned' = parse_response(response_text)
    /\ pc' = "parse_done"
    /\ UNCHANGED <<response_text, bbox1, bbox2, iou_12, iou_21, results, original_dimensions>>
    /\ UNCHANGED <<yolo_results, gpt_results, error>>
    /\ UNCHANGED aggVars
    /\ UNCHANGED reqVars
    /\ UNCHANGED cfgVars
    /\ UNCHANGED <<image, resized, padded>>
    /\ UNCHANGED svcVars

ParseNext == ParseCall

ParseSpec == ParseInit /\ [][ParseNext]_vars

\* An element that has class, confidence and bbox and a known class
HasFieldsAndKnownClass(det) ==
    /\ det.dict
    /\ {"class", "confidence", "bbox"} \subseteq det.keys
    /\ \E c \in 1..Len(DEFECT_CLASSES) : DEFECT_CLASSES[c] = det.class

\* Such an element whose confidence is a number and whose bbox is an object
WellFormedElement(det) ==
    /\ HasFieldsAndKnownClass(det)
    /\ det.confidence.numeric
    /\ det.bbox.dict

\* a is b with some elements left out
RECURSIVE IsSubseq(_, _)
IsSubseq(a, b) ==
    IF a = <<>>
    THEN TRUE
    ELSE IF b = <<>>
         THEN FALSE
         ELSE IF Head(a) = Head(b)
              THEN IsSubseq(Tail(a), Tail(b))
              ELSE IsSubseq(a, Tail(b))

\* C20: parse_response drops bad array elements one by one: for a JSON array,
\* the classes of the elements that have class, confidence and bbox and a known
\* class, and are otherwise well formed, appear in the result in input order;
\* no element without the three fields or with an unknown class is in the
\* result; and a bad element does not make the valid elements of the same
\* response disappear.
C20_BadElementsDroppedOneByOne ==
    (pc = "parse_done" /\ response_text.json = "array") =>
        LET valid == SelectSeq(response_text.elements, WellFormedElement)
            known == SelectSeq(response_text.elements, HasFieldsAndKnownClass)
            ClassesOf(s) == [k \in 1..Len(s) |-> s[k].class]
        IN  /\ IsSubseq(ClassesOf(valid), ClassesOf(returned))
            /\ IsSubseq(ClassesOf(returned), ClassesOf(known))

----------------------------------------------------------------------------
(* DimSpec: ImagePreprocessor.validate_dimensions and resize_for_yolo in    *)
(* the order preprocess calls them, image_preprocessor.py:82-145, 270-285   *)

\* utils/config.py:34 MIN_IMAGE_SIZE
min_size == 640

\* utils/config.py:33 MAX_IMAGE_SIZE
max_size == 4096

\* Widths and heights of decoded images: around both limits and in between
Sides == {639, 640, 641, 650, 1077, 1280, 4096, 4097}

\* A variant of validate_dimensions whose limits are exclusive
validate_dimensions_exclusive(width, height) ==
    IF height <= min_size \/ width <= min_size
    THEN "ValueError"
    ELSE IF height >= max_size \/ width >= max_size
         THEN "ValueError"
         ELSE "none"

\* lines 95-110: the exception raised, "none" when True is returned
validate_dimensions(width, height) ==
    IF height < min_size \/ width < min_size
    THEN "ValueError"
    ELSE IF height > max_size \/ width > max_size
         THEN "ValueError"
         ELSE "none"

\* lines 131-142: cv2.resize needs positive sides, and the slice of padded that
\* takes the resized image must have its shape
PlacementRaises(r) ==
    \/ r.new_width <= 0
    \/ r.new_height <= 0
    \/ r.x_offset < 0
    \/ r.y_offset < 0
    \/ r.x_offset + r.new_width > target_size
    \/ r.y_offset + r.new_height > target_size

\* lines 122-139
resize_for_yolo(width, height) ==
    [new_width |-> new_width(width, height),
     new_height |-> new_height(width, height),
     x_offset |-> x_offset(width, height),
     y_offset |-> y_offset(width, height)]

DimInit ==
    /\ pc = "dim_input"
    /\ image \in Sides \X Sides
    /\ resized = NotResized
    /\ padded = <<0, 0, 0>>
    /\ bbox1 = Box(0, 0, 0, 0)
    /\ bbox2 = Box(0, 0, 0, 0)
    /\ iou_12 = IouZero
    /\ iou_21 = IouZero
    /\ response_text = <<>>
    /\ results = <<>>
    /\ original_dimensions = <<0, 0>>
    /\ returned = <<>>
    /\ yolo_results = <<>>
    /\ gpt_results = <<>>
    /\ AggEmpty
    /\ ReqIdle
    /\ Configured
    /\ error = "none"
    /\ SvcIdle

dimFrame ==
    <<bbox1, bbox2, iou_12, iou_21, response_text, results, original_dimensions, returned,
      yolo_results, gpt_results>>

\* image_preprocessor.py:270: validate_dimensions(original_image)
ValidateDimensions ==
    /\ pc = "dim_input"
    /\ error' = validate_dimensions(image[1], image[2])
    /\ pc' = IF error' = "none" THEN "dim_valid" ELSE "dim_rejected"
    /\ UNCHANGED <<image, resized, padded>>
    /\ UNCHANGED dimFrame
    /\ UNCHANGED aggVars
    /\ UNCHANGED reqVars
    /\ UNCHANGED <<cfgVars, svcVars>>

\* image_preprocessor.py:285: resize_for_yolo(processed)
ResizeForYolo ==
    /\ pc = "dim_valid"
    /\ LET r == resize_for_yolo(image[1], image[2])
       IN  /\ resized' = r
           /\ IF PlacementRaises(r)
              THEN /\ error' = "Exception"
                   /\ padded' = padded
              ELSE /\ error' = "none"
                   /\ padded' = <<target_size, target_size, 3>>
    /\ pc' = "resized"
    /\ UNCHANGED image
    /\ UNCHANGED dimFrame
    /\ UNCHANGED aggVars
    /\ UNCHANGED reqVars
    /\ UNCHANGED <<cfgVars, svcVars>>

DimNext == ValidateDimensions \/ ResizeForYolo

DimSpec == DimInit /\ [][DimNext]_vars

InRange(side) == side >= min_size /\ side <= max_size

\* C21: validate_dimensions rejects an image if and only if its width or its
\* height lies outside [min_size, max_size], both limits inclusive: a side equal
\* to min_size or to max_size is accepted, a side below min_size or above
\* max_size raises the dimension error.
C21_ValidateDimensionsInclusive ==
    pc # "dim_input" =>
        /\ pc = "dim_rejected" <=> ~(InRange(image[1]) /\ InRange(image[2]))
        /\ pc = "dim_rejected" => error = "ValueError"

\* An image whose sides are exactly the two limits has been accepted
C21_Witness ==
    /\ pc = "dim_valid"
    /\ image = <<640, 4096>>
    /\ error = "none"

\* C25: resize_for_yolo on an image whose width and height are both within
\* [min_size, max_size] returns, without failing, an image of exactly
\* target_size x target_size pixels with 3 channels, whatever the aspect ratio.
C25_ResizeReturnsSquare ==
    pc = "resized" =>
        /\ error = "none"
        /\ padded = <<target_size, target_size, 3>>

\* The most elongated valid image has been resized
C25_Witness ==
    /\ pc = "resized"
    /\ image = <<4096, 640>>
    /\ resized.new_width = target_size
    /\ resized.new_height = 100
    /\ padded = <<target_size, target_size, 3>>

\* Padding after the resized content on each axis, line 142
PadRight == target_size - resized.x_offset - resized.new_width

PadBottom == target_size - resized.y_offset - resized.new_height

\* C28: letterboxing scales the image so that its longer side equals
\* target_size and pads the shorter side symmetrically: the padding before the
\* resized content equals the padding after it on each axis, for every valid
\* source width and height.
C28_LetterboxSymmetric ==
    (pc = "resized" /\ error = "none") =>
        /\ Max(resized.new_width, resized.new_height) = target_size
        /\ resized.x_offset = PadRight
        /\ resized.y_offset = PadBottom

----------------------------------------------------------------------------
(* Requests, continued: app.py:252-360                                      *)

\* C22: if preprocessing fails the request fails at once with a validation
\* error: neither detector is invoked and the aggregator is not called for it.
C22_ValidationErrorSkipsDetectors ==
    response.code = "VALIDATION_ERROR" =>
        /\ pc = "done"
        /\ response.status = 400
        /\ yoloTask = "unsubmitted"
        /\ gptTask = "unsubmitted"
        /\ future_yolo = NoFuture
        /\ future_gpt = NoFuture
        /\ yoloOutcome = NoOutcome
        /\ gptOutcome = NoOutcome
        /\ AggEmpty
        /\ ~ ENABLED Next

\* A request with an imageUrl has failed in preprocessing
C22_Witness ==
    /\ body = "ok"
    /\ pc = "done"
    /\ response = [status |-> 400, code |-> "VALIDATION_ERROR"]
    /\ yoloTask = "unsubmitted"
    /\ gptTask = "unsubmitted"

----------------------------------------------------------------------------
(* SvcSpec: the request threads of one worker process calling get_services, *)
(* app.py:34-80, and finishing their requests, app.py:252-360               *)

\* The thread moves to its next line, everything else of svcVars aside
Goto(t, line) == thread_pc' = [thread_pc EXCEPT ![t] = line]

Constructed(name) == constructions' = [constructions EXCEPT ![name] = @ + 1]

svcFrame ==
    <<pc, yolo_results, gpt_results, error, aggVars, reqVars, cfgVars, fnVars>>

SvcInit ==
    /\ pc = "svc"
    /\ yolo_results = <<>>
    /\ gpt_results = <<>>
    /\ AggEmpty
    /\ ReqIdle
    /\ Configured
    /\ FnIdle
    /\ error = "none"
    /\ SvcIdle

\* app.py:253 and 50: the request calls get_services, which tests the first global
Check(t) ==
    /\ thread_pc[t] = "idle"
    /\ IF image_preprocessor = None
       THEN Goto(t, "construct_pre")
       ELSE Goto(t, "load_pre")
    /\ UNCHANGED <<image_preprocessor, yolo_detector, gpt_vision_client,
                   ensemble_aggregator, services, constructions, replies>>
    /\ UNCHANGED svcFrame

\* app.py:54-58: the instance is named after the thread that constructs it
ConstructPre(t) ==
    /\ thread_pc[t] = "construct_pre"
    /\ image_preprocessor' = t
    /\ Constructed("image_preprocessor")
    /\ Goto(t, "construct_yolo")
    /\ UNCHANGED <<yolo_detector, gpt_vision_client, ensemble_aggregator, services, replies>>
    /\ UNCHANGED svcFrame

\* app.py:61-64
ConstructYolo(t) ==
    /\ thread_pc[t] = "construct_yolo"
    /\ yolo_detector' = t
    /\ Constructed("yolo_detector")
    /\ Goto(t, "construct_gpt")
    /\ UNCHANGED <<image_preprocessor, gpt_vision_client, ensemble_aggregator, services, replies>>
    /\ UNCHANGED svcFrame

\* app.py:67-70
ConstructGpt(t) ==
    /\ thread_pc[t] = "construct_gpt"
    /\ gpt_vision_client' = t
    /\ Constructed("gpt_vision_client")
    /\ Goto(t, "construct_ensemble")
    /\ UNCHANGED <<image_preprocessor, yolo_detector, ensemble_aggregator, services, replies>>
    /\ UNCHANGED svcFrame

\* app.py:73-76
ConstructEnsemble(t) ==
    /\ thread_pc[t] = "construct_ensemble"
    /\ ensemble_aggregator' = t
    /\ Constructed("ensemble_aggregator")
    /\ Goto(t, "load_pre")
    /\ UNCHANGED <<image_preprocessor, yolo_detector, gpt_vision_client, services, replies>>
    /\ UNCHANGED svcFrame

\* app.py:80: the return statement loads the four globals one after the other
\* into the tuple, and another thread may run between two loads
Load(t) ==
    /\ thread_pc[t] \in {"load_pre", "load_yolo", "load_gpt", "load_ensemble"}
    /\ IF thread_pc[t] = "load_pre"
       THEN /\ services' = [services EXCEPT ![t][1] = image_preprocessor]
            /\ Goto(t, "load_yolo")
       ELSE IF thread_pc[t] = "load_yolo"
            THEN /\ services' = [services EXCEPT ![t][2] = yolo_detector]
                 /\ Goto(t, "load_gpt")
            ELSE IF thread_pc[t] = "load_gpt"
                 THEN /\ services' = [services EXCEPT ![t][3] = gpt_vision_client]
                      /\ Goto(t, "load_ensemble")
                 ELSE /\ services' = [services EXCEPT ![t][4] = ensemble_aggregator]
                      /\ Goto(t, "handle")
    /\ UNCHANGED <<image_preprocessor, yolo_detector, gpt_vision_client,
                   ensemble_aggregator, constructions, replies>>
    /\ UNCHANGED svcFrame

\* app.py:331: the reply of a request that went through
OkResponse == [status |-> 200, code |-> "OK"]

\* app.py:253-360 after get_services returned: preprocessor.preprocess raises
\* ValueError or returns; run_yolo and run_gpt turn every exception of yolo and
\* gpt, the AttributeError of None included, into an empty list (lines 272-286);
\* ensemble.aggregate on None raises AttributeError, caught at line 347
Handle(t) ==
    /\ thread_pc[t] = "handle"
    /\ \E ok \in BOOLEAN :
          replies' = [replies EXCEPT ![t] =
                         IF services[t][1] = None
                         THEN ErrorResponse("AttributeError")
                         ELSE IF ~ok
                              THEN ErrorResponse("ValueError")
                              ELSE IF services[t][4] = None
                                   THEN ErrorResponse("AttributeError")
                                   ELSE OkResponse]
    /\ Goto(t, "done")
    /\ UNCHANGED <<image_preprocessor, yolo_detector, gpt_vision_client,
                   ensemble_aggregator, services, constructions>>
    /\ UNCHANGED svcFrame

\* The thread takes the next request of the worker
NextRequest(t) ==
    /\ thread_pc[t] = "done"
    /\ services' = [services EXCEPT ![t] = <<None, None, None, None>>]
    /\ replies' = [replies EXCEPT ![t] = NoResponse]
    /\ Goto(t, "idle")
    /\ UNCHANGED <<image_preprocessor, yolo_detector, gpt_vision_client,
                   ensemble_aggregator, constructions>>
    /\ UNCHANGED svcFrame

SvcNext ==
    \E t \in Threads :
        \/ Check(t)
        \/ ConstructPre(t)
        \/ ConstructYolo(t)
        \/ ConstructGpt(t)
        \/ ConstructEnsemble(t)
        \/ Load(t)
        \/ Handle(t)
        \/ NextRequest(t)

SvcSpec == SvcInit /\ [][SvcNext]_vars

\* get_services has returned to the thread
HasServices(t) == thread_pc[t] \in {"handle", "done"}

\* C24: under any interleaving of concurrent requests calling get_services,
\* each of the four services is constructed at most once per process and all
\* requests receive the same instances.
C24_ConstructedOnce ==
    /\ \A n \in ServiceNames : constructions[n] <= 1
    /\ \A t1, t2 \in Threads :
          (HasServices(t1) /\ HasServices(t2)) => services[t1] = services[t2]

\* C29: get_services never returns a partially initialised tuple: no caller
\* receives a tuple in which any of the four services is still None.
C29_NoPartialTuple ==
    \A t \in Threads :
        HasServices(t) => \A i \in 1..4 : services[t][i] # None

\* C23: every request with an imageUrl ends either in success or in a named
\* validation error; no other failure outcome, such as ML_ERROR, is reachable.
C23_SuccessOrValidationError ==
    \A t \in Threads :
        thread_pc[t] = "done" => replies[t].code \in {"OK", "VALIDATION_ERROR"}

----------------------------------------------------------------------------
(* The aggregator, continued: ensemble_aggregator.py:75-112, 201-254        *)

\* The c-th detection of B is a same-class candidate above the threshold for the i-th of A
Candidate(i, c) ==
    /\ SameClass(yolo_results[i], gpt_results[c])
    /\ IsMatch(PairIou(i, c))

\* C26: for each detection a of A, scanned in input order, the candidate
\* considered for matching is the highest-IoU detection among those of B with
\* the class of a; among candidates of equal IoU the earliest of B is chosen;
\* the choice is made per detection of A, whatever was chosen before.
C26_BestSameClassCandidate ==
    (pc = "agg_done" /\ error = "none") =>
        /\ \A k \in 1..Len(matches) :
              LET i == matches[k].i
                  j == matches[k].j
              IN  /\ SameClass(yolo_results[i], gpt_results[j])
                  /\ \A c \in 1..Len(gpt_results) :
                        SameClass(yolo_results[i], gpt_results[c]) =>
                            /\ ~IouLess(PairIou(i, j), PairIou(i, c))
                            /\ c < j => IouLess(PairIou(i, c), PairIou(i, j))
        /\ \A k1, k2 \in 1..Len(matches) : k1 < k2 => matches[k1].i < matches[k2].i
        /\ \A i \in 1..Len(yolo_results) :
              (\E c \in 1..Len(gpt_results) : Candidate(i, c))
                  <=> (\E k \in 1..Len(matches) : matches[k].i = i)

\* A detection of A with two candidates of its class above the threshold, the
\* later of which has the higher IoU (2/3 and 1), is paired with the later
C26_Witness ==
    /\ pc = "agg_done"
    /\ Len(yolo_results) = 1
    /\ Len(gpt_results) = 2
    /\ yolo_results[1].bbox = Box(0, 0, 2, 2)
    /\ gpt_results[1].bbox = Box(-1, 0, 3, 2)
    /\ gpt_results[2].bbox = Box(0, 0, 2, 2)
    /\ Candidate(1, 1)
    /\ Candidate(1, 2)
    /\ matches = <<[i |-> 1, j |-> 2]>>

\* C27: the list returned by aggregate is in non-increasing confidence order,
\* and detections of equal confidence keep the order they have in the candidate
\* pool (merged first, then unmatched YOLO, then unmatched GPT).
C27_OutputInConfidenceOrder ==
    (pc = "agg_done" /\ error = "none") =>
        /\ Len(kept) = Len(final_detections)
        /\ \A a \in 1..Len(final_detections) :
              final_detections[a] = ensemble_detections[kept[a]]
        /\ \A a, b \in 1..Len(final_detections) :
              a < b =>
                  /\ final_detections[a].confidence >= final_detections[b].confidence
                  /\ final_detections[a].confidence = final_detections[b].confidence
                        => kept[a] < kept[b]

\* A merged detection, first in the pool, is returned behind an unmatched
\* detection of higher confidence
C27_Witness ==
    /\ pc = "agg_done"
    /\ Len(matches) = 1
    /\ Len(ensemble_detections) = 2
    /\ kept = <<2, 1>>
    /\ final_detections[1].confidence > final_detections[2].confidence
    /\ final_detections[2] = ensemble_detections[1]

\* C30: apply_nms never over-suppresses: a detection is absent from the output
\* only if the output contains a detection of its class with confidence >= its
\* own and IoU with it >= nms_threshold; the highest-confidence candidate of a
\* non-empty pool is always in the output; every output detection is an
\* element of the pool.
C30_NmsNeverOverSuppresses ==
    pc = "nms_done" =>
        /\ \A p \in 1..Len(ensemble_detections) :
              p \notin KeptSet =>
                  \E q \in KeptSet :
                      /\ ensemble_detections[q].class = ensemble_detections[p].class
                      /\ ensemble_detections[q].confidence >= ensemble_detections[p].confidence
                      /\ ~IouBelow(calculate_iou(ensemble_detections[q].bbox,
                                                 ensemble_detections[p].bbox), nms_threshold)
        /\ ensemble_detections # <<>> =>
              /\ kept # <<>>
              /\ \A p \in 1..Len(ensemble_detections) :
                    /\ ensemble_detections[kept[1]].confidence
                          >= ensemble_detections[p].confidence
                    /\ ensemble_detections[kept[1]].confidence
                          = ensemble_detections[p].confidence => kept[1] <= p
        /\ Len(final_detections) = Len(kept)
        /\ Cardinality(KeptSet) = Len(kept)
        /\ \A a \in 1..Len(kept) :
              /\ kept[a] \in 1..Len(ensemble_detections)
              /\ final_detections[a] = ensemble_detections[kept[a]]

\* Of three same-class candidates the second, at IoU 2/5 with the first, is
\* absent, and the third, at IoU 1/6 with the first, is returned
C30_Witness ==
    /\ pc = "nms_done"
    /\ Len(ensemble_detections) = 3
    /\ \A p \in 1..3 : ensemble_detections[p].class = "crack"
    /\ ensemble_detections[1].bbox = Box(0, 0, 2, 2)
    /\ ensemble_detections[2].bbox = Box(0, 0, 3, 1)
    /\ ensemble_detections[3].bbox = Box(1, 0, 3, 1)
    /\ ensemble_detections[1].confidence = 8300
    /\ ensemble_detections[2].confidence = 8000
    /\ ensemble_detections[3].confidence = 7500
    /\ kept = <<1, 3>>
====
